---- MODULE Spec2Model ----
(***************************************************************************)
(* Abuse-detection and escalation core of the moderation bot (src/bot.py): *)
(* the warning counter with its automatic punishments, the anti-nuke       *)
(* sliding-window tracker, the anti-spam detector, and the documents they  *)
(* persist, with the way those are written to and loaded from disk.        *)
(*                                                                         *)
(* Every command or event handler is one action.  The effects a handler    *)
(* has on its collaborators (persistence, direct message, channel reply,   *)
(* enforcement call) are appended, in program order, to the sequence out,  *)
(* and last records the inputs and the values the handler observed.        *)
(* Time is the wall clock time.time(), counted in whole seconds and        *)
(* assumed not to run backwards.                                           *)
(***************************************************************************)
EXTENDS Integers, Sequences, FiniteSets, TLC

VARIABLES
    warnings_data,        \* bot.py:207  {str(guild): {str(user): count}}
    warnings_file,        \* warnings.json on disk
    warnings_backup_file, \* warnings_backup.json on disk
    security_settings,    \* bot.py:251  process-wide settings record
    security_file,        \* security_settings.json on disk
    user_action_tracker,  \* bot.py:254  {guild: {user: [(action, timestamp)]}}
    now,                  \* time.time()
    last,                 \* the most recent handler call and what it observed
    out,                  \* effects of the most recent handler, in order
    streak,               \* history: warns since a fresh start, per (guild, user)
    recorded,             \* history: every timestamp ever appended, per (guild, user)
    spam_tracker,         \* bot.py:257  {guild: {user: {'messages', 'last_message'}}}
    bot_state_file,       \* bot_state.json on disk
    botEnabled,           \* bot.py:349  the global enable switch
    tmp_file,             \* the temporary file of the save in progress
    writer,               \* the file write in progress, if any
    security_backup_file, \* the backup sibling of security_settings.json on disk
    bot_state_backup_file,\* the backup sibling of bot_state.json on disk
    retry_count,          \* error_handling.py:20  restarts counted by the runner
    auto_save_tasks,      \* bot.py:532  auto_save_warnings tasks started so far
    command_cooldowns,    \* bot.py:378  user id -> time of the last command let through
    calls,                \* the handler coroutines suspended at an await
    jobs                  \* the _write_json jobs handed to the executor threads

vars == <<warnings_data, warnings_file, warnings_backup_file, security_settings,
          security_file, user_action_tracker, now, last, out, streak, recorded,
          spam_tracker, bot_state_file, botEnabled, tmp_file, writer,
          security_backup_file, bot_state_backup_file, retry_count, auto_save_tasks,
          command_cooldowns,
          calls, jobs>>

warnVars == <<warnings_data, warnings_file, warnings_backup_file, streak>>
nukeVars == <<security_settings, security_file, user_action_tracker, now, recorded>>
diskVars == <<bot_state_file, botEnabled, tmp_file, writer>>
siblingVars == <<security_backup_file, bot_state_backup_file>>
runVars == <<retry_count, auto_save_tasks, command_cooldowns>>
asyncVars == <<calls, jobs>>
extraVars == <<spam_tracker, diskVars, siblingVars, runVars, asyncVars>>

(***************************************************************************)
(* Bounds and small input domains.                                         *)
(***************************************************************************)
MaxWarn == 7          \* warn is not issued to a user who already has MaxWarn
MaxAmount == 2        \* largest numeric clearwarns amount tried
MaxTime == 3          \* the clock stops at MaxTime
MaxRecords == 2       \* actions attributed to one actor while thresholds change
MaxBurst == 5         \* actions attributed to one actor in a burst
MaxWindow == 2        \* the short time window a settings file may hold
MaxThreshold == 2     \* largest threshold / window value an admin types
MaxLimit == 1         \* the duplicate limit a settings file may hold
MaxSpamTime == 4      \* the clock of the anti-spam runs stops at MaxSpamTime
MaxSaves == 2         \* warn is not issued at MaxSaves warnings while files are followed
MaxTasks == 2         \* on_ready runs at most MaxTasks times in one process
MaxRetries == 6       \* bot.run is not followed once retry_count is MaxRetries
MaxCalls == 2         \* handler calls started while saves run in threads

Guilds == {1, 2}
Users == {1, 2}
Roles == {1, 2}

\* the members the warning commands are aimed at
WarnTargets == {<<1, 1>>, <<1, 2>>}

\* A file is missing, unparsable, or holds a JSON document.
MISSING == [st |-> "missing", doc |-> << >>]
CORRUPT == [st |-> "corrupt", doc |-> << >>]
File(doc) == [st |-> "ok", doc |-> doc]

(***************************************************************************)
(* Python helpers.                                                         *)
(***************************************************************************)
\* builtin str() on an id
str(i) == ToString(i)

\* builtin min() / max()
min(a, b) == IF a <= b THEN a ELSE b
max(a, b) == IF a >= b THEN a ELSE b

\* str.lower() on the words the commands compare against
lower(s) ==
    CASE s = "ALL" -> "all"
      [] s = "All" -> "all"
      [] s = "ENABLE" -> "enable"
      [] s = "BanThreshold" -> "banthreshold"
      [] s = "MessageLimit" -> "messagelimit"
      [] s = "Action" -> "action"
      [] s = "KICK" -> "kick"
      [] OTHER -> s

\* A command argument is text: either the decimal spelling of an integer
\* (txt = "", n the integer) or some other word (txt the word).
IntArg(n) == [txt |-> "", n |-> n]
WordArg(w) == [txt |-> w, n |-> 0]
\* builtin int(): succeeds exactly on the decimal spellings
int_ok(a) == a.txt = ""
int(a) == a.n
arg_text(a) == IF a.txt = "" THEN ToString(a.n) ELSE a.txt

\* dict membership / lookup / assignment on the two-level dictionaries
has(d, g, u) == g \in DOMAIN d /\ u \in DOMAIN d[g]

\* setdefault2 that overwrites an existing entry with the default
setdefault2_overwrite(d, g, u, v) ==
    [k \in DOMAIN d \cup {g} |->
        IF k = g
        THEN [j \in (IF g \in DOMAIN d THEN DOMAIN d[g] ELSE {}) \cup {u} |->
                 IF j = u THEN v ELSE d[g][j]]
        ELSE d[k]]

setdefault2(d, g, u, v) ==
    [k \in DOMAIN d \cup {g} |->
        IF k = g
        THEN [j \in (IF g \in DOMAIN d THEN DOMAIN d[g] ELSE {}) \cup {u} |->
                 IF g \in DOMAIN d /\ j \in DOMAIN d[g] THEN d[g][j] ELSE v]
        ELSE d[k]]

assign2(d, g, u, v) ==
    [k \in DOMAIN d \cup {g} |->
        IF k = g
        THEN [j \in (IF g \in DOMAIN d THEN DOMAIN d[g] ELSE {}) \cup {u} |->
                 IF j = u THEN v ELSE d[g][j]]
        ELSE d[k]]

\* the stored count of a member, 0 when there is none
StoredOr0(g, u) ==
    IF has(warnings_data, str(g), str(u)) THEN warnings_data[str(g)][str(u)] ELSE 0

\* one effect of a handler on a collaborator
Eff(op, arg) == [op |-> op, arg |-> arg]

\* a handler call: its inputs, the time it ran and what it observed
Call(op, g, u, amount, roles, t, prev, n, status) ==
    [op |-> op, g |-> g, u |-> u, amount |-> amount, roles |-> roles, t |-> t,
     prev |-> prev, n |-> n, status |-> status, bot |-> FALSE]

(***************************************************************************)
(* Persistence of the warnings document.                                   *)
(***************************************************************************)
\* save_json_async whose failed write leaves a damaged target behind
save_json_async_torn(file, data, ok) == IF ok THEN File(data) ELSE CORRUPT

\* save_json_async: the write either replaces the file or fails and leaves it
save_json_async(file, data, ok) == IF ok THEN File(data) ELSE file

\* save_warnings: primary first; the backup is written only after the primary
\* write returned, and every failure is swallowed
save_warnings(data, okMain, okBackup) ==
    /\ warnings_file' = save_json_async(warnings_file, data, okMain)
    /\ warnings_backup_file' =
          IF okMain THEN save_json_async(warnings_backup_file, data, okBackup)
                    ELSE warnings_backup_file

(***************************************************************************)
(* Warning escalation.                                                     *)
(***************************************************************************)
\* apply_mute that tries once more after a failure
apply_mute_retrying(duration, enfOK) ==
    IF enfOK THEN << Eff("mute", duration), Eff("send", 0) >>
    ELSE << Eff("mute", duration), Eff("mute", duration), Eff("send_failure", 0) >>

\* apply_mute / apply_kick / apply_ban: one enforcement call, then a channel
\* message reporting success or failure; nothing is retried
apply_mute(duration, enfOK) ==
    << Eff("mute", duration), Eff(IF enfOK THEN "send" ELSE "send_failure", 0) >>
apply_kick(enfOK) ==
    << Eff("kick", 0), Eff(IF enfOK THEN "send" ELSE "send_failure", 0) >>
apply_ban(enfOK) ==
    << Eff("ban", 0), Eff(IF enfOK THEN "send" ELSE "send_failure", 0) >>

\* escalate with the kick tier written as "6 or more"
escalate_kick_from_6(warning_count, enfOK) ==
    IF warning_count = 3 THEN apply_mute(10, enfOK)
    ELSE IF warning_count = 4 THEN apply_mute(60, enfOK)
    ELSE IF warning_count >= 6 THEN apply_kick(enfOK)
    ELSE << >>

\* the punishment chain at the end of warn
escalate(warning_count, enfOK) ==
    IF warning_count = 3 THEN apply_mute(10, enfOK)
    ELSE IF warning_count = 4 THEN apply_mute(60, enfOK)
    ELSE IF warning_count = 6 THEN apply_kick(enfOK)
    ELSE IF warning_count > 6 THEN apply_ban(enfOK)
    ELSE << >>

\* the warn command giving up when the direct message cannot be delivered
warn_dm_required(g, u, isSelf, okMain, okBackup, dmOK, enfOK) ==
    LET guild_id == str(g)
        user_id == str(u)
    IN
    IF isSelf
    THEN /\ out' = << Eff("send", 0) >>
         /\ last' = Call("warn", g, u, WordArg(""), {}, now, -1, -1, "self")
         /\ UNCHANGED warnVars
    ELSE
    LET d0 == setdefault2(warnings_data, guild_id, user_id, 0)
        d1 == assign2(d0, guild_id, user_id, d0[guild_id][user_id] + 1)
        warning_count == d1[guild_id][user_id]
    IN
    /\ d0[guild_id][user_id] < MaxWarn
    /\ warnings_data' = d1
    /\ save_warnings(d1, okMain, okBackup)
    /\ out' = IF dmOK
              THEN << Eff("save_warnings", 0), Eff("dm", warning_count),
                      Eff("send", warning_count) >> \o escalate(warning_count, enfOK)
              ELSE << Eff("save_warnings", 0), Eff("dm_failed", warning_count) >>
    /\ last' = Call("warn", g, u, WordArg(""), {}, now,
                     IF has(warnings_data, guild_id, user_id)
                     THEN warnings_data[guild_id][user_id] ELSE -1,
                     warning_count, "ok")
    /\ streak' = [streak EXCEPT ![g, u] =
                    IF ~has(warnings_data, guild_id, user_id) THEN 1
                    ELSE IF streak[g, u] >= 0 THEN streak[g, u] + 1
                    ELSE -1]

\* the warn command
warn(g, u, isSelf, okMain, okBackup, dmOK, enfOK) ==
    LET guild_id == str(g)
        user_id == str(u)
    IN
    IF isSelf
    THEN /\ out' = << Eff("send", 0) >>
         /\ last' = Call("warn", g, u, WordArg(""), {}, now, -1, -1, "self")
         /\ UNCHANGED warnVars
    ELSE
    LET d0 == setdefault2(warnings_data, guild_id, user_id, 0)
        d1 == assign2(d0, guild_id, user_id, d0[guild_id][user_id] + 1)
        warning_count == d1[guild_id][user_id]
    IN
    /\ d0[guild_id][user_id] < MaxWarn
    /\ warnings_data' = d1
    /\ save_warnings(d1, okMain, okBackup)
    /\ out' = << Eff("save_warnings", 0),
                 Eff(IF dmOK THEN "dm" ELSE "dm_failed", warning_count),
                 Eff("send", warning_count) >>
               \o escalate(warning_count, enfOK)
    /\ last' = Call("warn", g, u, WordArg(""), {}, now,
                     IF has(warnings_data, guild_id, user_id)
                     THEN warnings_data[guild_id][user_id] ELSE -1,
                     warning_count, "ok")
    /\ streak' = [streak EXCEPT ![g, u] =
                    IF ~has(warnings_data, guild_id, user_id) THEN 1
                    ELSE IF streak[g, u] >= 0 THEN streak[g, u] + 1
                    ELSE -1]

\* clear_amount without the floor at zero
clear_amount_no_floor(amount, current_warnings) ==
    IF lower(arg_text(amount)) = "all"
    THEN [status |-> "ok", cleared |-> current_warnings, remaining |-> 0]
    ELSE IF ~int_ok(amount)
    THEN [status |-> "not_a_number", cleared |-> 0, remaining |-> current_warnings]
    ELSE IF int(amount) <= 0
    THEN [status |-> "not_positive", cleared |-> 0, remaining |-> current_warnings]
    ELSE [status |-> "ok",
          cleared |-> min(int(amount), current_warnings),
          remaining |-> current_warnings - int(amount)]

\* clear_amount that reports the requested amount as cleared
clear_amount_reports_request(amount, current_warnings) ==
    IF lower(arg_text(amount)) = "all"
    THEN [status |-> "ok", cleared |-> current_warnings, remaining |-> 0]
    ELSE IF ~int_ok(amount)
    THEN [status |-> "not_a_number", cleared |-> 0, remaining |-> current_warnings]
    ELSE IF int(amount) <= 0
    THEN [status |-> "not_positive", cleared |-> 0, remaining |-> current_warnings]
    ELSE [status |-> "ok",
          cleared |-> int(amount),
          remaining |-> max(0, current_warnings - int(amount))]

\* clear_amount that refuses only negative amounts
clear_amount_accepts_zero(amount, current_warnings) ==
    IF lower(arg_text(amount)) = "all"
    THEN [status |-> "ok", cleared |-> current_warnings, remaining |-> 0]
    ELSE IF ~int_ok(amount)
    THEN [status |-> "not_a_number", cleared |-> 0, remaining |-> current_warnings]
    ELSE IF int(amount) < 0
    THEN [status |-> "not_positive", cleared |-> 0, remaining |-> current_warnings]
    ELSE [status |-> "ok",
          cleared |-> min(int(amount), current_warnings),
          remaining |-> max(0, current_warnings - int(amount))]

\* the amount branch of clearwarns: what is cleared and what remains, or why
\* the amount is refused
clear_amount(amount, current_warnings) ==
    IF lower(arg_text(amount)) = "all"
    THEN [status |-> "ok", cleared |-> current_warnings, remaining |-> 0]
    ELSE IF ~int_ok(amount)
    THEN [status |-> "not_a_number", cleared |-> 0, remaining |-> current_warnings]
    ELSE IF int(amount) <= 0
    THEN [status |-> "not_positive", cleared |-> 0, remaining |-> current_warnings]
    ELSE [status |-> "ok",
          cleared |-> min(int(amount), current_warnings),
          remaining |-> max(0, current_warnings - int(amount))]

\* the clearwarns command
clearwarns(g, u, isSelf, amount, okMain, okBackup) ==
    LET guild_id == str(g)
        user_id == str(u)
        known == has(warnings_data, guild_id, user_id)
        current_warnings == IF known THEN warnings_data[guild_id][user_id] ELSE -1
        r == clear_amount(amount, current_warnings)
        status == IF isSelf THEN "self"
                  ELSE IF ~known THEN "no_warnings"
                  ELSE r.status
    IN
    IF status # "ok"
    THEN /\ out' = << Eff("send", 0) >>
         /\ last' = Call("clearwarns", g, u, amount, {}, now, current_warnings, -1, status)
         /\ UNCHANGED warnVars
    ELSE
    LET d1 == assign2(warnings_data, guild_id, user_id, r.remaining) IN
    /\ warnings_data' = d1
    /\ save_warnings(d1, okMain, okBackup)
    /\ out' = << Eff("save_warnings", 0), Eff("send", r.cleared) >>
    /\ last' = Call("clearwarns", g, u, amount, {}, now, current_warnings, r.cleared, "ok")
    /\ streak' = [streak EXCEPT ![g, u] =
                    IF lower(arg_text(amount)) = "all" THEN 0 ELSE -1]

(***************************************************************************)
(* Security settings and the anti-nuke detector.                           *)
(***************************************************************************)
\* load_security_settings: default_settings
default_settings ==
    [antinuke_enabled |-> TRUE,
     antispam_enabled |-> TRUE,
     antinuke_ban_threshold |-> 5,
     antinuke_kick_threshold |-> 3,
     antinuke_time_window |-> 10,
     antispam_message_limit |-> 5,
     antispam_time_window |-> 5,
     antispam_mention_limit |-> 5,
     antispam_duplicate_limit |-> 3,
     antispam_action |-> "mute",
     antispam_mute_duration |-> 10,
     whitelisted_roles |-> << >>,
     log_channel |-> "None"]

\* load_security_settings without the merge: the file's keys alone
load_security_settings_file_only(file) ==
    IF file.st = "ok" THEN file.doc ELSE default_settings

\* load_security_settings: the file's keys, the absent ones filled from the
\* defaults; the defaults alone when the file is missing or unparsable
load_security_settings(file) ==
    IF file.st = "ok"
    THEN [k \in DOMAIN default_settings \cup DOMAIN file.doc |->
             IF k \in DOMAIN file.doc THEN file.doc[k] ELSE default_settings[k]]
    ELSE default_settings

\* int(rid) on a stored role identifier
role_id(rid) == CHOOSE r \in Roles : str(r) = rid

\* is_whitelisted that asks for every role of the member to be whitelisted
is_whitelisted_all_roles(roles) ==
    IF security_settings.whitelisted_roles = << >> THEN FALSE
    ELSE LET whitelisted_ids ==
                 {role_id(security_settings.whitelisted_roles[i]) :
                      i \in 1..Len(security_settings.whitelisted_roles)}
         IN \A role \in roles : role \in whitelisted_ids

\* is_whitelisted(member), given member.roles
is_whitelisted(roles) ==
    IF security_settings.whitelisted_roles = << >> THEN FALSE
    ELSE LET whitelisted_ids ==
                 {role_id(security_settings.whitelisted_roles[i]) :
                      i \in 1..Len(security_settings.whitelisted_roles)}
         IN \E role \in roles : role \in whitelisted_ids

\* handle_antinuke_violation with the kick test as a second, separate if
handle_antinuke_violation_two_ifs(roles, action_count, enfOK) ==
    IF ~security_settings.antinuke_enabled THEN << >>
    ELSE IF is_whitelisted(roles) THEN << >>
    ELSE (IF action_count >= security_settings.antinuke_ban_threshold
          THEN << Eff("ban", action_count) >> ELSE << >>)
         \o (IF action_count >= security_settings.antinuke_kick_threshold
             THEN << Eff("kick", action_count) >> ELSE << >>)

\* handle_antinuke_violation with strict comparisons
handle_antinuke_violation_strict(roles, action_count, enfOK) ==
    IF ~security_settings.antinuke_enabled THEN << >>
    ELSE IF is_whitelisted(roles) THEN << >>
    ELSE IF action_count > security_settings.antinuke_ban_threshold
    THEN << Eff("ban", action_count) >>
    ELSE IF action_count > security_settings.antinuke_kick_threshold
    THEN << Eff("kick", action_count) >>
    ELSE << >>

\* handle_antinuke_violation: the calls it makes; a failed ban or kick is
\* logged and nothing else happens
handle_antinuke_violation(roles, action_count, enfOK) ==
    LET ban_threshold == security_settings.antinuke_ban_threshold
        kick_threshold == security_settings.antinuke_kick_threshold
        failed == IF enfOK THEN << >> ELSE << Eff("log_error", 0) >>
    IN
    IF ~security_settings.antinuke_enabled THEN << >>
    ELSE IF is_whitelisted(roles) THEN << >>
    ELSE IF action_count >= ban_threshold
    THEN << Eff("ban", action_count) >> \o failed
    ELSE IF action_count >= kick_threshold
    THEN << Eff("kick", action_count) >> \o failed
    ELSE << >>

\* track_user_action that starts the list afresh once it has reached the
\* kick threshold
track_user_action_forgetful(guild_id, user_id, action_type) ==
    LET t0 == setdefault2(user_action_tracker, guild_id, user_id, << >>)
        current_time == now
        time_window == security_settings.antinuke_time_window
        before == IF Len(t0[guild_id][user_id]) >= security_settings.antinuke_kick_threshold
                  THEN << >> ELSE t0[guild_id][user_id]
        appended == Append(before, <<action_type, current_time>>)
        kept == SelectSeq(appended, LAMBDA a : current_time - a[2] < time_window)
    IN assign2(t0, guild_id, user_id, kept)

\* track_user_action that appends and never removes
track_user_action_unpruned(guild_id, user_id, action_type) ==
    LET t0 == setdefault2(user_action_tracker, guild_id, user_id, << >>)
        appended == Append(t0[guild_id][user_id], <<action_type, now>>)
    IN assign2(t0, guild_id, user_id, appended)

\* track_user_action that keeps an action that is exactly time_window old
track_user_action_closed(guild_id, user_id, action_type) ==
    LET t0 == setdefault2(user_action_tracker, guild_id, user_id, << >>)
        current_time == now
        time_window == security_settings.antinuke_time_window
        appended == Append(t0[guild_id][user_id], <<action_type, current_time>>)
        kept == SelectSeq(appended, LAMBDA a : current_time - a[2] <= time_window)
    IN assign2(t0, guild_id, user_id, kept)

\* track_user_action: the tracker after the call; the count returned is the
\* length of the actor's list in it
track_user_action(guild_id, user_id, action_type) ==
    LET t0 == setdefault2(user_action_tracker, guild_id, user_id, << >>)
        current_time == now
        time_window == security_settings.antinuke_time_window
        appended == Append(t0[guild_id][user_id], <<action_type, current_time>>)
        kept == SelectSeq(appended, LAMBDA a : current_time - a[2] < time_window)
    IN assign2(t0, guild_id, user_id, kept)

\* The body shared by the five event handlers.  audit is what the audit-log
\* lookup (limit=1) gave: "error", "none", "mismatch" (an entry about another
\* target) or "match"; checkTarget says whether the handler compares the
\* entry's target with the event's.
on_destructive_event(action_type, checkTarget, g, u, audit, isMember, roles, enfOK) ==
    LET dropped(why) ==
            /\ last' = Call(action_type, g, u, WordArg(""), roles, now, -1, -1, why)
            /\ out' = << >>
            /\ UNCHANGED <<user_action_tracker, recorded>>
    IN
    /\ UNCHANGED <<security_settings, security_file, now>>
    /\ UNCHANGED <<warnVars, extraVars>>
    /\ IF ~security_settings.antinuke_enabled THEN dropped("disabled")
       ELSE IF audit = "error" THEN dropped("lookup_error")
       ELSE IF audit = "none" THEN dropped("no_entry")
       ELSE IF checkTarget /\ audit = "mismatch" THEN dropped("mismatch")
       ELSE IF ~isMember THEN dropped("not_member")
       ELSE IF is_whitelisted(roles) THEN dropped("whitelisted")
       ELSE
       LET tracker1 == track_user_action(g, u, action_type)
           action_count == Len(tracker1[g][u])
       IN
       /\ user_action_tracker' = tracker1
       /\ recorded' = [recorded EXCEPT ![<<g, u>>] = Append(@, now)]
       /\ out' = IF action_count >= security_settings.antinuke_kick_threshold
                 THEN handle_antinuke_violation(roles, action_count, enfOK)
                 ELSE << >>
       /\ last' = Call(action_type, g, u, WordArg(""), roles, now,
                       IF has(user_action_tracker, g, u)
                       THEN Len(user_action_tracker[g][u]) ELSE -1,
                       action_count, "tracked")

on_member_ban(g, u, audit, isMember, roles, enfOK) ==
    on_destructive_event("ban", TRUE, g, u, audit, isMember, roles, enfOK)

\* on_member_remove that does not compare the entry's target with the member
on_member_remove_unchecked(g, u, audit, isMember, roles, enfOK) ==
    on_destructive_event("kick", FALSE, g, u, audit, isMember, roles, enfOK)

on_member_remove(g, u, audit, isMember, roles, enfOK) ==
    on_destructive_event("kick", TRUE, g, u, audit, isMember, roles, enfOK)

on_guild_role_delete(g, u, audit, isMember, roles, enfOK) ==
    on_destructive_event("role_delete", TRUE, g, u, audit, isMember, roles, enfOK)

on_guild_channel_delete(g, u, audit, isMember, roles, enfOK) ==
    on_destructive_event("channel_delete", TRUE, g, u, audit, isMember, roles, enfOK)

\* on_bulk_message_delete on a non-empty batch of guild messages
on_bulk_message_delete(g, u, audit, isMember, roles, enfOK) ==
    on_destructive_event("bulk_delete", FALSE, g, u, audit, isMember, roles, enfOK)

\* the antinuke command with an action keyword; save_security_settings is
\* called without await there, so the coroutine never runs and nothing is written
antinuke_config(action0, value) ==
    LET action == lower(action0)
        set(field, v) ==
            /\ security_settings' = [security_settings EXCEPT ![field] = v]
            /\ out' = << Eff("send", 0) >>
            /\ last' = Call("antinuke", 0, 0, value, {}, now, -1, -1, action)
        refused(why) ==
            /\ UNCHANGED security_settings
            /\ out' = << Eff("send", 0) >>
            /\ last' = Call("antinuke", 0, 0, value, {}, now, -1, -1, why)
        number(field) ==
            IF ~int_ok(value) THEN refused("not_a_number")
            ELSE IF int(value) < 1 THEN refused("too_small")
            ELSE set(field, int(value))
        truthy == arg_text(value) # ""
    IN
    /\ UNCHANGED <<security_file, user_action_tracker, now, recorded>>
    /\ UNCHANGED <<warnVars, extraVars>>
    /\ IF action = "enable" THEN set("antinuke_enabled", TRUE)
       ELSE IF action = "disable" THEN set("antinuke_enabled", FALSE)
       ELSE IF action = "banthreshold" /\ truthy THEN number("antinuke_ban_threshold")
       ELSE IF action = "kickthreshold" /\ truthy THEN number("antinuke_kick_threshold")
       ELSE IF action = "timewindow" /\ truthy THEN number("antinuke_time_window")
       ELSE refused("invalid_action")

\* the punishments the antispam command accepts, with one that does not exist
antispam_actions_with_warn == {"mute", "kick", "ban", "warn"}

\* the punishments the antispam command accepts
antispam_actions == {"mute", "kick", "ban"}

\* the antispam command in a guild, with an action word and a value.  As in
\* the antinuke command, save_security_settings is called but not awaited.
antispam_config(action0, value) ==
    LET action == lower(action0)
        set(field, v) ==
            /\ security_settings' = [security_settings EXCEPT ![field] = v]
            /\ out' = << Eff("send", 0) >>
            /\ last' = Call("antispam", 0, 0, value, {}, now, -1, -1, action)
        refused(why) ==
            /\ UNCHANGED security_settings
            /\ out' = << Eff("send", 0) >>
            /\ last' = Call("antispam", 0, 0, value, {}, now, -1, -1, why)
        number(field) ==
            IF ~int_ok(value) THEN refused("not_a_number")
            ELSE IF int(value) < 1 THEN refused("too_small")
            ELSE set(field, int(value))
        truthy == arg_text(value) # ""
    IN
    /\ UNCHANGED <<security_file, user_action_tracker, now, recorded>>
    /\ UNCHANGED <<warnVars, extraVars>>
    /\ IF action = "enable" THEN set("antispam_enabled", TRUE)
       ELSE IF action = "disable" THEN set("antispam_enabled", FALSE)
       ELSE IF action = "messagelimit" /\ truthy THEN number("antispam_message_limit")
       ELSE IF action = "mentionlimit" /\ truthy THEN number("antispam_mention_limit")
       ELSE IF action = "duplicatelimit" /\ truthy
       THEN number("antispam_duplicate_limit")
       ELSE IF action = "action" /\ truthy
       THEN IF lower(arg_text(value)) \in antispam_actions
            THEN set("antispam_action", lower(arg_text(value)))
            ELSE refused("invalid_value")
       ELSE IF action = "muteduration" /\ truthy
       THEN number("antispam_mute_duration")
       ELSE refused("invalid_action")

\* the clock moves on
Tick(limit) ==
    /\ now < limit
    /\ now' = now + 1
    /\ UNCHANGED <<security_settings, security_file, user_action_tracker, recorded,
                   last, out>>
    /\ UNCHANGED <<warnVars, extraVars>>

(***************************************************************************)
(* Anti-spam: on_message.                                                  *)
(***************************************************************************)
\* the history a tracked author starts with, and is reset to
no_history == [messages |-> << >>, last_message |-> 0]

\* one (content, timestamp) tuple of the history
Record(content, timestamp) == [content |-> content, timestamp |-> timestamp]

\* recent_messages that also counts a record exactly time_window old
recent_messages_closed(messages, current_time, time_window) ==
    SelectSeq(messages, LAMBDA m : current_time - m.timestamp <= time_window)

\* recent_messages: the records younger than time_window
recent_messages(messages, current_time, time_window) ==
    SelectSeq(messages, LAMBDA m : current_time - m.timestamp < time_window)

\* duplicate_count: the recent records with the content of the new message
duplicate_count(recent, content) ==
    Len(SelectSeq(recent, LAMBDA m : m.content = content))

\* spam_reason with the flood test strict
spam_reason_strict_flood(n_recent, mention_count, n_duplicate) ==
    (IF n_recent > security_settings.antispam_message_limit
     THEN << Eff("reason_messages", n_recent) >> ELSE << >>)
    \o (IF mention_count > security_settings.antispam_mention_limit
        THEN << Eff("reason_mentions", mention_count) >> ELSE << >>)
    \o (IF n_duplicate >= security_settings.antispam_duplicate_limit
        THEN << Eff("reason_duplicates", n_duplicate) >> ELSE << >>)

\* spam_reason without the entry of the mention check
spam_reason_one_entry(n_recent, mention_count, n_duplicate) ==
    IF n_recent >= security_settings.antispam_message_limit
    THEN << Eff("reason_messages", n_recent) >>
    ELSE IF mention_count > security_settings.antispam_mention_limit
    THEN << Eff("reason_mentions", mention_count) >>
    ELSE IF n_duplicate >= security_settings.antispam_duplicate_limit
    THEN << Eff("reason_duplicates", n_duplicate) >>
    ELSE << >>

\* spam_reason: one entry per check that fired, in the order of the checks;
\* is_spam is set exactly when an entry is appended
spam_reason(n_recent, mention_count, n_duplicate) ==
    (IF n_recent >= security_settings.antispam_message_limit
     THEN << Eff("reason_messages", n_recent) >> ELSE << >>)
    \o (IF mention_count > security_settings.antispam_mention_limit
        THEN << Eff("reason_mentions", mention_count) >> ELSE << >>)
    \o (IF n_duplicate >= security_settings.antispam_duplicate_limit
        THEN << Eff("reason_duplicates", n_duplicate) >> ELSE << >>)

\* the calls made on a violation: the configured punishment, then, in the
\* same try block, the deletion of the message (its own failure ignored);
\* a punishment that raises leaves the block before the deletion
spam_response(enfOK, delOK) ==
    LET action == security_settings.antispam_action
        punish ==
            IF action = "ban" THEN << Eff("ban", 0) >>
            ELSE IF action = "kick" THEN << Eff("kick", 0) >>
            ELSE IF action = "mute"
            THEN << Eff("mute", security_settings.antispam_mute_duration) >>
            ELSE << >>
    IN
    IF punish # << >> /\ ~enfOK
    THEN punish \o << Eff("log_error", 0) >>
    ELSE punish \o << Eff("delete", IF delOK THEN 1 ELSE 0), Eff("log_warning", 0) >>

\* the history left after a violation, if it were not reset
reset_history_kept(user_data) == user_data

\* the history assigned after a violation
reset_history(user_data) == no_history

\* the pruning after an append, keeping only time_window instead of twice it
retained_one_window(messages, current_time, time_window) ==
    SelectSeq(messages, LAMBDA m : current_time - m.timestamp < time_window)

\* the pruning after an append: the records younger than 2 * time_window
retained(messages, current_time, time_window) ==
    SelectSeq(messages, LAMBDA m : current_time - m.timestamp < time_window * 2)

MsgCall(g, u, isBot, content, mention_count, roles, n_duplicate, n_recent, status) ==
    [Call("message", g, u, [txt |-> content, n |-> mention_count], roles, now,
          n_duplicate, n_recent, status) EXCEPT !.bot = isBot]

\* on_message, up to the hand-over to the command framework
on_message(g, u, isBot, inGuild, isMember, roles, content, mention_count, enfOK, delOK) ==
    LET skipped(why) ==
            /\ UNCHANGED spam_tracker
            /\ out' = IF why = "bot" THEN << >> ELSE << Eff("process_commands", 0) >>
            /\ last' = MsgCall(g, u, isBot, content, mention_count, roles, -1, -1, why)
    IN
    /\ UNCHANGED <<security_settings, security_file, user_action_tracker, now, recorded>>
    /\ UNCHANGED <<warnVars, diskVars, siblingVars, runVars, asyncVars>>
    /\ IF isBot THEN skipped("bot")
       ELSE IF ~inGuild THEN skipped("no_guild")
       ELSE IF ~security_settings.antispam_enabled THEN skipped("disabled")
       ELSE IF ~isMember THEN skipped("not_member")
       ELSE IF is_whitelisted(roles) THEN skipped("whitelisted")
       ELSE
       LET t0 == setdefault2(spam_tracker, g, u, no_history)
           current_time == now
           time_window == security_settings.antispam_time_window
           user_data == t0[g][u]
           recent == recent_messages(user_data.messages, current_time, time_window)
           n_duplicate == duplicate_count(recent, content)
           reasons == spam_reason(Len(recent), mention_count, n_duplicate)
       IN
       IF reasons # << >>
       THEN /\ spam_tracker' = assign2(t0, g, u, reset_history(user_data))
            /\ out' = reasons \o spam_response(enfOK, delOK)
            /\ last' = MsgCall(g, u, isBot, content, mention_count, roles,
                               n_duplicate, Len(recent), "spam")
       ELSE /\ spam_tracker' = assign2(t0, g, u,
                  [messages |-> retained(Append(user_data.messages,
                                                Record(content, current_time)),
                                         current_time, time_window),
                   last_message |-> current_time])
            /\ out' = << Eff("process_commands", 0) >>
            /\ last' = MsgCall(g, u, isBot, content, mention_count, roles,
                               n_duplicate, Len(recent), "accepted")

(***************************************************************************)
(* Initial state: the module-level loads of bot.py.  A previous run left a *)
(* warnings document (and its backup) on disk; there is no settings file,  *)
(* so the settings are the defaults.                                       *)
(***************************************************************************)
\* load_warnings: the value returned
load_warnings(primary, backup) ==
    IF primary.st = "missing" THEN << >>
    ELSE IF primary.st = "ok" THEN primary.doc
    ELSE IF backup.st = "ok" THEN backup.doc
    ELSE << >>

\* load_warnings: a successful primary load rewrites the backup
load_warnings_backup(primary, backup) ==
    IF primary.st = "ok" THEN File(primary.doc) ELSE backup

\* the document the previous run left behind: one warning in guild 2
StartDoc == [g \in {"2"} |-> [u \in {"1"} |-> 1]]

\* load_bot_state: the file's document, or the disabled state when the file
\* is missing or unreadable
load_bot_state(file) == IF file.st = "ok" THEN file.doc ELSE [enabled |-> FALSE]

\* no write is in progress
NoWrite ==
    [pc |-> "idle", kind |-> "", target |-> "", data |-> << >>, prev |-> MISSING,
     at |-> ""]

NoCall == Call("none", 0, 0, WordArg(""), {}, 0, -1, -1, "none")

\* the state after the module-level loads, given the files found on disk
InitWith(wfile, wbackup, sfile, bfile) ==
    /\ warnings_data = load_warnings(wfile, wbackup)
    /\ warnings_file = wfile
    /\ warnings_backup_file = load_warnings_backup(wfile, wbackup)
    /\ security_settings = load_security_settings(sfile)
    /\ security_file = sfile
    /\ user_action_tracker = << >>
    /\ now = 0
    /\ last = NoCall
    /\ out = << >>
    /\ streak = [p \in Guilds \X Users |->
                    IF has(load_warnings(wfile, wbackup), str(p[1]), str(p[2]))
                    THEN -1 ELSE 0]
    /\ recorded = [p \in Guilds \X Users |-> << >>]
    /\ spam_tracker = << >>
    /\ bot_state_file = bfile
    /\ botEnabled = load_bot_state(bfile).enabled
    /\ tmp_file = MISSING
    /\ writer = NoWrite
    /\ security_backup_file = MISSING
    /\ bot_state_backup_file = MISSING
    /\ retry_count = 0
    /\ auto_save_tasks = 0
    /\ command_cooldowns = << >>
    /\ calls = << >>
    /\ jobs = << >>

\* the same with the state file an owner's work command left behind
InitFrom(wfile, wbackup, sfile) == InitWith(wfile, wbackup, sfile, File([enabled |-> TRUE]))

Init == InitFrom(File(StartDoc), MISSING, MISSING)

(***************************************************************************)
(* The warning commands, one call at a time, with the disk always writable.*)
(***************************************************************************)
Amounts ==
    {WordArg("all"), WordArg("ALL"), WordArg("abc")}
    \cup {IntArg(n) : n \in -1..MaxAmount}

WarnCall ==
    \E t \in WarnTargets, isSelf, dmOK, enfOK \in BOOLEAN :
        /\ warn(t[1], t[2], isSelf, TRUE, TRUE, dmOK, enfOK)
        /\ UNCHANGED <<nukeVars, extraVars>>

ClearwarnsCall ==
    \E t \in WarnTargets, isSelf \in BOOLEAN, amount \in Amounts :
        /\ clearwarns(t[1], t[2], isSelf, amount, TRUE, TRUE)
        /\ UNCHANGED <<nukeVars, extraVars>>

NextWarn == WarnCall \/ ClearwarnsCall

SpecWarn == Init /\ [][NextWarn]_vars

Spec == SpecWarn

(***************************************************************************)
(* The anti-nuke detector under changing thresholds: the five event        *)
(* handlers and the antinuke command.  A previous run may have left a      *)
(* whitelist in the settings file.  The clock stands still, so nothing     *)
(* ages out.                                                               *)
(***************************************************************************)
\* the actors the audit log names
NukeActors == {<<1, 1>>}
\* member.roles of the actor: without, or with, the whitelisted role 1
ActorRoles == {{2}, {1, 2}}
\* what the admin types after the antinuke command
NoValue == WordArg("")
ThresholdValues == {IntArg(n) : n \in 0..MaxThreshold} \cup {WordArg("abc")}
ConfigCommands ==
    {<<"enable", NoValue>>, <<"disable", NoValue>>, <<"resetall", NoValue>>,
     <<"banthreshold", NoValue>>}
    \cup ({"banthreshold", "kickthreshold"} \X ThresholdValues)

\* an event is not tracked for an actor who already has cap actions on record
Capped(p, cap) == last'.status = "tracked" => Len(recorded[p]) < cap

InitNuke ==
    \E sfile \in {MISSING, File([whitelisted_roles |-> << "1" >>])} :
        InitFrom(File(StartDoc), MISSING, sfile)

NukeBan ==
    \E p \in NukeActors, roles \in ActorRoles, enfOK \in BOOLEAN :
        /\ on_member_ban(p[1], p[2], "match", TRUE, roles, enfOK)
        /\ Capped(p, MaxRecords)

NukeKick ==
    \E p \in NukeActors, roles \in ActorRoles, enfOK \in BOOLEAN :
        /\ on_member_remove(p[1], p[2], "match", TRUE, roles, enfOK)
        /\ Capped(p, MaxRecords)

NukeRoleDelete ==
    \E p \in NukeActors, roles \in ActorRoles, enfOK \in BOOLEAN :
        /\ on_guild_role_delete(p[1], p[2], "match", TRUE, roles, enfOK)
        /\ Capped(p, MaxRecords)

NukeChannelDelete ==
    \E p \in NukeActors, roles \in ActorRoles, enfOK \in BOOLEAN :
        /\ on_guild_channel_delete(p[1], p[2], "match", TRUE, roles, enfOK)
        /\ Capped(p, MaxRecords)

NukeBulkDelete ==
    \E p \in NukeActors, roles \in ActorRoles, enfOK \in BOOLEAN :
        /\ on_bulk_message_delete(p[1], p[2], "match", TRUE, roles, enfOK)
        /\ Capped(p, MaxRecords)

NukeConfig ==
    \E c \in ConfigCommands : antinuke_config(c[1], c[2])

NextNuke ==
    \/ NukeBan
    \/ NukeKick
    \/ NukeRoleDelete
    \/ NukeChannelDelete
    \/ NukeBulkDelete
    \/ NukeConfig

SpecNuke == InitNuke /\ [][NextNuke]_vars

(***************************************************************************)
(* Bursts of destructive actions of one actor under fixed settings: the    *)
(* default thresholds (kick at 3, ban at 5) and either the default window  *)
(* or a short one read from the settings file, with the clock running.     *)
(***************************************************************************)
InitTrack ==
    \E sfile \in {MISSING, File([antinuke_time_window |-> MaxWindow])} :
        InitFrom(File(StartDoc), MISSING, sfile)

TrackChannelDelete ==
    \E p \in NukeActors, enfOK \in BOOLEAN :
        /\ on_guild_channel_delete(p[1], p[2], "match", TRUE, {2}, enfOK)
        /\ Capped(p, MaxBurst)

TrackBulkDelete ==
    \E p \in NukeActors, enfOK \in BOOLEAN :
        /\ on_bulk_message_delete(p[1], p[2], "mismatch", TRUE, {2}, enfOK)
        /\ Capped(p, MaxBurst)

TrackTick == Tick(MaxTime)

NextTrack == TrackChannelDelete \/ TrackBulkDelete \/ TrackTick

SpecTrack == InitTrack /\ [][NextTrack]_vars

(***************************************************************************)
(* The anti-spam detector: messages of one guild member, of a bot, of a    *)
(* whitelisted member, while the clock runs.  A previous run left a        *)
(* settings file with a short window, small limits and a whitelisted role. *)
(***************************************************************************)
\* the author (guild, user) whose messages arrive
SpamAuthors == {<<1, 1>>}
\* the authors who are not followed, <<guild, user, bot, member.roles>>: a bot,
\* and the member above once role 1, which is whitelisted, is given to them
ExemptAuthors == {<<1, 2, TRUE, {2}>>, <<1, 1, FALSE, {1, 2}>>}
\* len(message.mentions) + len(message.role_mentions)
MentionCounts == 0..2
\* the punishment call and the deletion succeed or raise; the deletion is
\* left out when the punishment raised
Outcomes == {<<TRUE, TRUE>>, <<TRUE, FALSE>>, <<FALSE, FALSE>>}
\* the text an author keeps repeating
RepeatedText == "hi"
\* a text that is in none of the records: the first unused number
FreshText(messages) ==
    LET used == {messages[i].content : i \in 1..Len(messages)}
        k == CHOOSE k \in 1..(Len(messages) + 1) :
                 /\ ToString(k) \notin used
                 /\ \A j \in 1..(k - 1) : ToString(j) \in used
    IN ToString(k)
\* the history on record for an author
History(g, u) == IF has(spam_tracker, g, u) THEN spam_tracker[g][u] ELSE no_history
Texts(g, u) == {RepeatedText, FreshText(History(g, u).messages)}

ShortSettings(action) ==
    [antispam_time_window |-> MaxWindow,
     antispam_message_limit |-> MaxLimit + 1,
     antispam_duplicate_limit |-> MaxLimit,
     antispam_mention_limit |-> 1,
     antispam_action |-> action,
     whitelisted_roles |-> << "1" >>]

InitSpam ==
    \E sfile \in {File(ShortSettings(a)) : a \in {"mute", "kick", "ban"}} :
        InitFrom(File(StartDoc), MISSING, sfile)

\* a message of the followed member; no message arrives while more records
\* than the message limit are retained
TrackedMessage ==
    \E p \in SpamAuthors, mention_count \in MentionCounts, o \in Outcomes :
        \E content \in Texts(p[1], p[2]) :
            /\ Len(History(p[1], p[2]).messages) <= security_settings.antispam_message_limit
            /\ on_message(p[1], p[2], FALSE, TRUE, TRUE, {2}, content, mention_count,
                          o[1], o[2])

\* a message of a bot or of a member with the whitelisted role, who repeat
\* one text with any number of mentions
ExemptMessage ==
    \E p \in ExemptAuthors, mention_count \in MentionCounts :
        \E content \in {RepeatedText} :
            on_message(p[1], p[2], p[3], TRUE, TRUE, p[4], content, mention_count,
                       TRUE, TRUE)

SpamTick == Tick(MaxSpamTime)

NextSpam == TrackedMessage \/ ExemptMessage \/ SpamTick

SpecSpam == InitSpam /\ [][NextSpam]_vars

(***************************************************************************)
(* A burst of messages of one member under the default settings: five      *)
(* messages per five seconds, three duplicates, five mentions.             *)
(***************************************************************************)
FloodMessage ==
    \E p \in SpamAuthors, mention_count \in MentionCounts, o \in Outcomes :
        \E content \in Texts(p[1], p[2]) :
            on_message(p[1], p[2], FALSE, TRUE, TRUE, {2}, content, mention_count,
                       o[1], o[2])

FloodTick == Tick(MaxTime)

NextFlood == FloodMessage \/ FloodTick

SpecFlood == Init /\ [][NextFlood]_vars

(***************************************************************************)
(* Files written step by step, crashes and restarts.                       *)
(*                                                                         *)
(* save_json_async writes a temporary file in the directory of its target  *)
(* and then moves it over the target; save_bot_state and the backup copy   *)
(* made by load_warnings open their target for writing and dump into it.   *)
(* The process can die between any two steps; the files stay as they are   *)
(* and the next run starts from the module-level loads.  Here a command is *)
(* taken up to the start of its save (nothing written yet) and the write   *)
(* it started is carried out by the steps below, one command at a time.    *)
(***************************************************************************)
\* a file opened for writing whose document is not complete; it does not parse
PARTIAL == [st |-> "partial", doc |-> << >>]

\* the content of a file, by name
file_of(target) ==
    CASE target = "warnings" -> warnings_file
      [] target = "warnings_backup" -> warnings_backup_file
      [] target = "security" -> security_file
      [] target = "bot_state" -> bot_state_file

\* one file gets a new content, the others stay
set_file(target, content) ==
    /\ warnings_file' = IF target = "warnings" THEN content ELSE warnings_file
    /\ warnings_backup_file' =
           IF target = "warnings_backup" THEN content ELSE warnings_backup_file
    /\ security_file' = IF target = "security" THEN content ELSE security_file
    /\ bot_state_file' = IF target = "bot_state" THEN content ELSE bot_state_file

\* a write that has been asked for: kind "atomic" for save_json_async,
\* "inplace" for open(file, 'w'); prev is the target as the write found it
start_write(kind, target, data) ==
    [pc |-> "start", kind |-> kind, target |-> target, data |-> data,
     prev |-> file_of(target), at |-> ""]

\* the target once any write has opened its output file, were every write
\* made in place
open_for_write_in_place(kind, file) == PARTIAL

\* the target once the write has opened its output file: open(target, 'w')
\* truncates the target, NamedTemporaryFile leaves it alone
open_for_write(kind, file) == IF kind = "inplace" THEN PARTIAL ELSE file

fileVars == <<warnings_file, warnings_backup_file, security_file, bot_state_file>>
memVars == <<warnings_data, security_settings, user_action_tracker, spam_tracker,
             botEnabled, now, last, out, streak, recorded, siblingVars, runVars, asyncVars>>

\* open the output file: the temporary file, or the target itself
OpenFile ==
    /\ writer.pc = "start"
    /\ writer' = [writer EXCEPT !.pc = "writing"]
    /\ tmp_file' = IF writer.kind = "atomic" THEN PARTIAL ELSE tmp_file
    /\ set_file(writer.target, open_for_write(writer.kind, file_of(writer.target)))
    /\ UNCHANGED memVars

\* json.dump completes and the output file is closed
WriteFile ==
    /\ writer.pc = "writing"
    /\ IF writer.kind = "atomic"
       THEN /\ tmp_file' = File(writer.data)
            /\ writer' = [writer EXCEPT !.pc = "written"]
            /\ UNCHANGED fileVars
       ELSE /\ set_file(writer.target, File(writer.data))
            /\ writer' = NoWrite
            /\ UNCHANGED tmp_file
    /\ UNCHANGED memVars

\* shutil.move(tmp_path, filename)
ReplaceFile ==
    /\ writer.pc = "written"
    /\ set_file(writer.target, tmp_file)
    /\ tmp_file' = MISSING
    /\ writer' = [writer EXCEPT !.pc = "replaced"]
    /\ UNCHANGED memVars

\* save_json_async returns; save_warnings goes on to the backup
FinishWrite ==
    /\ writer.pc = "replaced"
    /\ writer' = IF writer.target = "warnings"
                 THEN start_write("atomic", "warnings_backup", writer.data)
                 ELSE NoWrite
    /\ UNCHANGED <<fileVars, tmp_file>>
    /\ UNCHANGED memVars

\* the process dies; writer keeps what was being written and how far it got
Crash ==
    /\ writer.pc # "crashed"
    /\ writer' = [writer EXCEPT !.pc = "crashed", !.at = writer.pc]
    /\ last' = Call("crash", 0, 0, WordArg(writer.target), {}, now, -1, -1, writer.pc)
    /\ out' = << >>
    /\ UNCHANGED <<warnings_data, security_settings, user_action_tracker, spam_tracker,
                   botEnabled, now, streak, recorded, fileVars, tmp_file,
                   siblingVars, runVars, asyncVars>>

\* the next run: the module-level loads; load_warnings starts the copy of a
\* primary that parsed into the backup
Restart ==
    /\ writer.pc = "crashed"
    /\ warnings_data' = load_warnings(warnings_file, warnings_backup_file)
    /\ security_settings' = load_security_settings(security_file)
    /\ botEnabled' = load_bot_state(bot_state_file).enabled
    /\ user_action_tracker' = << >>
    /\ spam_tracker' = << >>
    /\ streak' = [p \in Guilds \X Users |->
                     IF has(load_warnings(warnings_file, warnings_backup_file),
                            str(p[1]), str(p[2]))
                     THEN -1 ELSE 0]
    /\ writer' = IF warnings_file.st = "ok"
                 THEN start_write("inplace", "warnings_backup", warnings_file.doc)
                 ELSE NoWrite
    /\ last' = Call("restart", 0, 0, WordArg(""), {}, now, -1, -1, writer.at)
    /\ out' = << >>
    /\ retry_count' = 0
    /\ auto_save_tasks' = 0
    /\ command_cooldowns' = << >>
    /\ calls' = << >>
    /\ jobs' = << >>
    /\ UNCHANGED <<now, recorded, fileVars, tmp_file, siblingVars>>

\* list.remove: the list without the first occurrence of x
list_remove(l, x) ==
    LET at == CHOOSE i \in 1..Len(l) : l[i] = x /\ \A j \in 1..(i - 1) : l[j] # x
    IN SubSeq(l, 1, at - 1) \o SubSeq(l, at + 1, Len(l))

\* the securitywhitelist command whose add appends without looking
security_whitelist_appending(action0, role, okSave) ==
    LET action == lower(action0)
        whitelisted == security_settings.whitelisted_roles
        listed == \E i \in 1..Len(whitelisted) : whitelisted[i] = str(role)
        changed(roles) ==
            LET s1 == [security_settings EXCEPT !.whitelisted_roles = roles] IN
            /\ security_settings' = s1
            /\ security_file' = save_json_async(security_file, s1, okSave)
            /\ out' = << Eff("save_security_settings", 0), Eff("send", role) >>
            /\ last' = Call("securitywhitelist", 0, 0, WordArg(action0), {role}, now,
                            -1, -1, action)
        refused(why) ==
            /\ UNCHANGED <<security_settings, security_file>>
            /\ out' = << Eff("send", role) >>
            /\ last' = Call("securitywhitelist", 0, 0, WordArg(action0), {role}, now,
                            -1, -1, why)
    IN
    /\ IF action = "add"
       THEN changed(Append(whitelisted, str(role)))
       ELSE IF action = "remove"
       THEN IF listed
            THEN changed(list_remove(whitelisted, str(role)))
            ELSE refused("not_listed")
       ELSE refused("invalid_action")
    /\ UNCHANGED <<user_action_tracker, now, recorded>>

\* the securitywhitelist command in a guild, with an action word and a role
security_whitelist(action0, role, okSave) ==
    LET action == lower(action0)
        whitelisted == security_settings.whitelisted_roles
        listed == \E i \in 1..Len(whitelisted) : whitelisted[i] = str(role)
        changed(roles) ==
            LET s1 == [security_settings EXCEPT !.whitelisted_roles = roles] IN
            /\ security_settings' = s1
            /\ security_file' = save_json_async(security_file, s1, okSave)
            /\ out' = << Eff("save_security_settings", 0), Eff("send", role) >>
            /\ last' = Call("securitywhitelist", 0, 0, WordArg(action0), {role}, now,
                            -1, -1, action)
        refused(why) ==
            /\ UNCHANGED <<security_settings, security_file>>
            /\ out' = << Eff("send", role) >>
            /\ last' = Call("securitywhitelist", 0, 0, WordArg(action0), {role}, now,
                            -1, -1, why)
    IN
    /\ IF action = "add"
       THEN IF ~listed THEN changed(Append(whitelisted, str(role)))
            ELSE refused("already")
       ELSE IF action = "remove"
       THEN IF listed
            THEN changed(list_remove(whitelisted, str(role)))
            ELSE refused("not_listed")
       ELSE refused("invalid_action")
    /\ UNCHANGED <<user_action_tracker, now, recorded>>

\* the work and stop commands: the owner switches the bot on or off
set_enabled_by(name, enabled, g, u, isOwner, okSave) ==
    IF ~isOwner
    THEN /\ out' = << Eff("send", 0) >>
         /\ last' = Call(name, g, u, WordArg(""), {}, now, -1, -1, "not_owner")
         /\ UNCHANGED <<botEnabled, bot_state_file>>
    ELSE /\ botEnabled' = enabled
         /\ bot_state_file' = IF okSave THEN File([enabled |-> enabled])
                              ELSE bot_state_file
         /\ out' = << Eff("save_bot_state", 0), Eff("send", 0) >>
         /\ last' = Call(name, g, u, WordArg(""), {}, now, -1, -1, "ok")
set_enabled(name, enabled, isOwner, okSave) ==
    set_enabled_by(name, enabled, 0, 0, isOwner, okSave)
work_command(isOwner, okSave) == set_enabled("work", TRUE, isOwner, okSave)
stop_command(isOwner, okSave) == set_enabled("stop", FALSE, isOwner, okSave)

COOLDOWN_TIME == 3

\* check_cooldown that stamps the user also when it refuses
check_cooldown_refreshing(cooldowns, user_id, inDM, current_time) ==
    IF inDM THEN [ok |-> TRUE, cooldowns |-> cooldowns]
    ELSE [ok |-> ~(user_id \in DOMAIN cooldowns
                   /\ current_time - cooldowns[user_id] < COOLDOWN_TIME),
          cooldowns |-> [v \in DOMAIN cooldowns \cup {user_id} |->
                            IF v = user_id THEN current_time ELSE cooldowns[v]]]

\* check_cooldown: the answer and the cooldown table after the call; in a
\* direct-message channel nothing is looked up and nothing is stamped
check_cooldown(cooldowns, user_id, inDM, current_time) ==
    IF inDM THEN [ok |-> TRUE, cooldowns |-> cooldowns]
    ELSE IF user_id \in DOMAIN cooldowns
            /\ current_time - cooldowns[user_id] < COOLDOWN_TIME
    THEN [ok |-> FALSE, cooldowns |-> cooldowns]
    ELSE [ok |-> TRUE,
          cooldowns |-> [v \in DOMAIN cooldowns \cup {user_id} |->
                            IF v = user_id THEN current_time ELSE cooldowns[v]]]

\* the commands marked owner_only
OwnerOnly == {"work", "stop"}

\* before_command without the test of the enablement flag
before_command_flag_ignored(name, user_id, isOwner, inDM) ==
    LET checked == check_cooldown(command_cooldowns, user_id, inDM, now) IN
    IF name \in OwnerOnly /\ ~isOwner
    THEN [status |-> "OwnerOnly", cooldowns |-> command_cooldowns]
    ELSE IF ~checked.ok
    THEN [status |-> "Cooldown", cooldowns |-> checked.cooldowns]
    ELSE [status |-> "pass", cooldowns |-> checked.cooldowns]

\* before_command: the CommandError it raises, or "pass", and the cooldown
\* table it leaves
before_command(name, user_id, isOwner, inDM) ==
    LET checked == check_cooldown(command_cooldowns, user_id, inDM, now) IN
    IF name \in OwnerOnly /\ ~isOwner
    THEN [status |-> "OwnerOnly", cooldowns |-> command_cooldowns]
    ELSE IF ~botEnabled /\ name # "work"
    THEN [status |-> "BotDisabled", cooldowns |-> command_cooldowns]
    ELSE IF ~checked.ok
    THEN [status |-> "Cooldown", cooldowns |-> checked.cooldowns]
    ELSE [status |-> "pass", cooldowns |-> checked.cooldowns]

\* a command invoked in guild g, or in a direct-message channel (g = 0):
\* the pre-invocation hook and, if it lets the command through, its body
invoke(name, g, u, isOwner, okSave) ==
    LET guard == before_command(name, u, isOwner, g = 0) IN
    /\ command_cooldowns' = guard.cooldowns
    /\ IF guard.status # "pass"
       THEN /\ out' = << Eff("send", 0) >>
            /\ last' = Call(name, g, u, WordArg(""), {}, now, -1, -1, guard.status)
            /\ UNCHANGED <<botEnabled, bot_state_file>>
       ELSE IF name = "work" THEN set_enabled_by("work", TRUE, g, u, isOwner, okSave)
       ELSE IF name = "stop" THEN set_enabled_by("stop", FALSE, g, u, isOwner, okSave)
       ELSE /\ out' = << Eff("send", 0) >>
            /\ last' = Call(name, g, u, WordArg(""), {}, now, -1, -1, "ok")
            /\ UNCHANGED <<botEnabled, bot_state_file>>
    /\ UNCHANGED <<warnVars, nukeVars, spam_tracker, tmp_file, writer, siblingVars,
                   retry_count, auto_save_tasks, asyncVars>>

\* before_command lets a command run: no write pending, bot enabled
\* (work runs also when the bot is disabled)
Ready(name) == writer.pc = "idle" /\ (botEnabled \/ name = "work")

DiskWarn ==
    /\ Ready("warn")
    /\ StoredOr0(1, 1) < MaxSaves
    /\ warn(1, 1, FALSE, FALSE, FALSE, TRUE, TRUE)
    /\ writer' = start_write("atomic", "warnings", warnings_data')
    /\ UNCHANGED <<nukeVars, spam_tracker, bot_state_file, botEnabled, tmp_file,
                   siblingVars, runVars, asyncVars>>

DiskWhitelist ==
    /\ Ready("securitywhitelist")
    /\ \E action \in {"add", "remove"} :
           /\ security_whitelist(action, 1, FALSE)
           /\ writer' = IF security_settings' # security_settings
                        THEN start_write("atomic", "security", security_settings')
                        ELSE NoWrite
    /\ UNCHANGED <<warnVars, spam_tracker, bot_state_file, botEnabled, tmp_file,
                   siblingVars, runVars, asyncVars>>

DiskWork ==
    /\ Ready("work")
    /\ work_command(TRUE, FALSE)
    /\ writer' = start_write("inplace", "bot_state", [enabled |-> TRUE])
    /\ UNCHANGED <<warnVars, nukeVars, spam_tracker, tmp_file, siblingVars, runVars, asyncVars>>

DiskStop ==
    /\ Ready("stop")
    /\ stop_command(TRUE, FALSE)
    /\ writer' = start_write("inplace", "bot_state", [enabled |-> FALSE])
    /\ UNCHANGED <<warnVars, nukeVars, spam_tracker, tmp_file, siblingVars, runVars, asyncVars>>

NextDisk ==
    \/ DiskWarn \/ DiskWhitelist \/ DiskWork \/ DiskStop
    \/ OpenFile \/ WriteFile \/ ReplaceFile \/ FinishWrite
    \/ Crash \/ Restart

SpecDisk == Init /\ [][NextDisk]_vars

(***************************************************************************)
(* Loading the warnings document from whatever is on disk: at start-up and *)
(* on reconnection, between warn commands whose saves may fail.            *)
(***************************************************************************)
\* on_resume: the warnings are loaded again
on_resume ==
    /\ warnings_data' = load_warnings(warnings_file, warnings_backup_file)
    /\ warnings_backup_file' = load_warnings_backup(warnings_file, warnings_backup_file)
    /\ streak' = [p \in Guilds \X Users |->
                     IF has(load_warnings(warnings_file, warnings_backup_file),
                            str(p[1]), str(p[2]))
                     THEN -1 ELSE 0]
    /\ last' = Call("on_resume", 0, 0, WordArg(""), {}, now, -1, -1, "ok")
    /\ out' = << >>
    /\ UNCHANGED warnings_file
    /\ UNCHANGED <<nukeVars, extraVars>>

\* an older document, as a backup may hold it
OldDoc == [g \in {"1"} |-> [u \in {"1"} |-> 1]]

InitLoad ==
    \E wfile \in {MISSING, CORRUPT, File(StartDoc)},
       wbackup \in {MISSING, CORRUPT, File(OldDoc)} :
        InitFrom(wfile, wbackup, MISSING)

LoadWarn ==
    \E t \in WarnTargets, okMain, okBackup \in BOOLEAN :
        /\ StoredOr0(t[1], t[2]) < MaxSaves
        /\ warn(t[1], t[2], FALSE, okMain, okBackup, TRUE, TRUE)
        /\ UNCHANGED <<nukeVars, extraVars>>

NextLoad == LoadWarn \/ on_resume

SpecLoad == InitLoad /\ [][NextLoad]_vars

(***************************************************************************)
(* One process from its start: on_ready (again after a new session),       *)
(* on_resume, the auto-save loop started by on_ready, and warn commands    *)
(* whose saves may fail.                                                   *)
(***************************************************************************)
\* on_ready: the warnings are loaded again and one more auto-save task is
\* created
on_ready ==
    /\ warnings_data' = load_warnings(warnings_file, warnings_backup_file)
    /\ warnings_backup_file' = load_warnings_backup(warnings_file, warnings_backup_file)
    /\ streak' = [p \in Guilds \X Users |->
                     IF has(load_warnings(warnings_file, warnings_backup_file),
                            str(p[1]), str(p[2]))
                     THEN -1 ELSE 0]
    /\ auto_save_tasks' = auto_save_tasks + 1
    /\ last' = Call("on_ready", 0, 0, WordArg(""), {}, now, -1, -1, "ok")
    /\ out' = << >>
    /\ UNCHANGED <<warnings_file, retry_count, command_cooldowns, asyncVars>>
    /\ UNCHANGED <<nukeVars, spam_tracker, diskVars, siblingVars>>

\* the test "if warnings_data:" of the auto-save loop, always true
is_truthy_always(data) == TRUE

\* the test "if warnings_data:" of the auto-save loop: a dict with a key
is_truthy(data) == DOMAIN data # {}

\* auto_save_warnings: one round of the loop after its sleep of 300 seconds
auto_save_warnings(okMain, okBackup) ==
    /\ auto_save_tasks > 0
    /\ IF is_truthy(warnings_data)
       THEN /\ save_warnings(warnings_data, okMain, okBackup)
            /\ out' = << Eff("save_warnings", 0) >>
            /\ last' = Call("auto_save_warnings", 0, 0, WordArg(""), {}, now, -1, -1,
                            "saved")
       ELSE /\ UNCHANGED <<warnings_file, warnings_backup_file>>
            /\ out' = << >>
            /\ last' = Call("auto_save_warnings", 0, 0, WordArg(""), {}, now, -1, -1,
                            "skipped")
    /\ UNCHANGED <<warnings_data, streak>>
    /\ UNCHANGED <<nukeVars, extraVars>>

InitReady ==
    \E wfile \in {MISSING, CORRUPT, File(StartDoc)},
       wbackup \in {MISSING, File(OldDoc)} :
        InitFrom(wfile, wbackup, MISSING)

ReadyWarn ==
    \E okMain, okBackup \in BOOLEAN :
        /\ auto_save_tasks > 0
        /\ StoredOr0(1, 1) < MaxSaves
        /\ warn(1, 1, FALSE, okMain, okBackup, TRUE, TRUE)
        /\ UNCHANGED <<nukeVars, extraVars>>

ReadyAgain == auto_save_tasks < MaxTasks /\ on_ready

ReadyResume == auto_save_tasks > 0 /\ on_resume

\* a round of the auto-save loop whose write of the primary succeeds
FlushWritten == \E okBackup \in BOOLEAN : auto_save_warnings(TRUE, okBackup)

\* a round of the auto-save loop whose write of the primary fails
FlushFailed == auto_save_warnings(FALSE, FALSE)

NextReady == ReadyWarn \/ ReadyAgain \/ ReadyResume \/ FlushWritten \/ FlushFailed

SpecReady == InitReady /\ [][NextReady]_vars

\* the loop keeps running and the disk does not fail forever
SpecReadyFair == SpecReady /\ WF_vars(FlushWritten)

(***************************************************************************)
(* The runner of src/error_handling.py: bot.run ends with an error (or     *)
(* returns), the runner sleeps and starts the bot again in the same        *)
(* process or leaves with sys.exit.  Between two ends of bot.run the bot   *)
(* serves warn commands whose saves may fail.                              *)
(***************************************************************************)
\* save_warnings_sync: save_json_sync swallows its own failure, so the backup
\* is written whether or not the primary was
save_warnings_sync(data, okMain, okBackup) ==
    /\ warnings_file' = save_json_async(warnings_file, data, okMain)
    /\ warnings_backup_file' = save_json_async(warnings_backup_file, data, okBackup)

\* how bot.run can end: the exception classes the runner tells apart, with
\* the two HTTP status ranges and the two kinds of message it looks at
RunErrors ==
    {"PrivilegedIntentsRequired", "LoginFailure", "ConnectionClosed",
     "GatewayNotFound", "HTTPException_5xx", "HTTPException_4xx", "CancelledError",
     "RuntimeError_session", "RuntimeError", "ClientException", "KeyboardInterrupt",
     "Exception", "returned"}

\* the process is gone: nothing runs any more
exited == [NoWrite EXCEPT !.pc = "crashed", !.at = "exit"]

\* run_bot_with_error_handling: one round of its loop, from the end of
\* bot.run to the next bot.run or to sys.exit
run_bot_with_error_handling(error, okMain, okBackup) ==
    LET again(count) ==
            /\ retry_count' = count
            /\ writer' = writer
            /\ last' = Call("run_bot", 0, 0, WordArg(error), {}, now, retry_count, count,
                            "restart")
        exit(code, count) ==
            /\ retry_count' = count
            /\ writer' = exited
            /\ last' = Call("run_bot", 0, 0, WordArg(error), {}, now, retry_count, count,
                            code)
        retry_below(limit) ==
            IF retry_count < limit THEN again(retry_count + 1)
            ELSE exit("exit_1", retry_count)
        quiet ==
            /\ out' = << >>
            /\ UNCHANGED <<warnings_file, warnings_backup_file>>
    IN
    /\ writer.pc = "idle"
    /\ UNCHANGED <<warnings_data, streak, nukeVars, spam_tracker, bot_state_file,
                   botEnabled, tmp_file, siblingVars, auto_save_tasks,
                   command_cooldowns, asyncVars>>
    /\ CASE error \in {"PrivilegedIntentsRequired", "LoginFailure", "HTTPException_4xx"} ->
                quiet /\ exit("exit_1", retry_count)
         [] error = "ConnectionClosed" -> quiet /\ again(retry_count + 1)
         [] error \in {"GatewayNotFound", "HTTPException_5xx", "returned"} ->
                quiet /\ again(retry_count)
         [] error = "CancelledError" ->
                quiet /\ (IF retry_count + 1 > 5 THEN exit("exit_1", retry_count + 1)
                                                 ELSE again(retry_count + 1))
         [] error = "RuntimeError_session" ->
                /\ save_warnings_sync(warnings_data, okMain, okBackup)
                /\ out' = << Eff("on_shutdown", 0), Eff("save_warnings_sync", 0) >>
                /\ retry_below(3)
         [] error \in {"RuntimeError", "ClientException", "Exception"} ->
                quiet /\ retry_below(5)
         [] error = "KeyboardInterrupt" -> quiet /\ exit("exit_0", retry_count)

RunWarn ==
    \E okMain, okBackup \in BOOLEAN :
        /\ Ready("warn")
        /\ StoredOr0(1, 1) < MaxSaves
        /\ warn(1, 1, FALSE, okMain, okBackup, TRUE, TRUE)
        /\ UNCHANGED <<nukeVars, extraVars>>

RunEnds ==
    \E error \in RunErrors, okMain, okBackup \in BOOLEAN :
        /\ retry_count < MaxRetries
        /\ run_bot_with_error_handling(error, okMain, okBackup)

NextRun == RunWarn \/ RunEnds

SpecRun == Init /\ [][NextRun]_vars

(***************************************************************************)
(* Handlers as coroutines.  A handler runs on the event loop up to its     *)
(* next await, where other handlers get their turn; calls lists the calls  *)
(* in the order they started, each with the point it is suspended at.      *)
(* save_json_async hands _write_json to run_in_executor: the job runs in a *)
(* thread of the default pool, beside the event loop and beside other      *)
(* jobs, and json.dump walks the very dict object the handlers mutate.     *)
(* jobs[i] is the job call i is waiting for.                               *)
(***************************************************************************)
\* the frame of a suspended call: n is the local warning_count, acted the
\* count the call escalated on (0: not yet)
Frame(op, pc, g, u, n) == [op |-> op, pc |-> pc, g |-> g, u |-> u, n |-> n, acted |-> 0]

\* a job handed to the executor: json.dump has not started.  size, pos and
\* text are the dict iterator of json.dump and the entries it has written
\* to the temporary file; tables is history, the tables that existed since
\* the job was handed over
submit(target, data) ==
    [pc |-> "queued", target |-> target, size |-> 0, pos |-> 0, text |-> << >>,
     tables |-> {data}]

\* the place in jobs of a call that has handed nothing to the executor
NoJob ==
    [pc |-> "none", target |-> "", size |-> 0, pos |-> 0, text |-> << >>, tables |-> {}]

\* history: the running jobs see one more table
observed(js, data) ==
    [i \in DOMAIN js |->
        IF js[i].pc \in {"queued", "dumping"}
        THEN [js[i] EXCEPT !.tables = @ \cup {data}]
        ELSE js[i]]

\* the guild whose members the warn calls of these runs are aimed at; its
\* dict is the one json.dump is walking
DumpGuild == "1"

\* the keys of a guild's dict in insertion order (member 1 was warned first)
KeysOf(inner) == SelectSeq(<< "1", "2" >>, LAMBDA k : k \in DOMAIN inner)

\* _write_json, from the start of json.dump to its first entry; the items
\* iterator remembers the size of the dict
dump_begin(i) ==
    LET inner == warnings_data[DumpGuild]
        key == KeysOf(inner)[1]
    IN
    /\ jobs[i].pc = "queued"
    /\ jobs' = [jobs EXCEPT ![i] = [@ EXCEPT !.pc = "dumping",
                                            !.size = Cardinality(DOMAIN inner),
                                            !.pos = 1,
                                            !.text = (key :> inner[key])]]
    /\ UNCHANGED <<warnVars, nukeVars, spam_tracker, diskVars, siblingVars, runVars,
                   calls, last, out>>

\* _write_json: the next step of the items iterator.  A dict whose size
\* changed raises RuntimeError; otherwise the next entry is written with the
\* value it has now, or the iteration ends and the temporary file is closed
dump_next(i) ==
    LET inner == warnings_data[DumpGuild]
        job == jobs[i]
        key == KeysOf(inner)[job.pos + 1]
    IN
    /\ job.pc = "dumping"
    /\ jobs' = [jobs EXCEPT ![i] =
                  IF Cardinality(DOMAIN inner) # job.size
                  THEN [job EXCEPT !.pc = "failed"]
                  ELSE IF job.pos < job.size
                  THEN [job EXCEPT !.pos = @ + 1, !.text = @ @@ (key :> inner[key])]
                  ELSE [job EXCEPT !.pc = "dumped"]]
    /\ UNCHANGED <<warnVars, nukeVars, spam_tracker, diskVars, siblingVars, runVars,
                   calls, last, out>>

\* _write_json: shutil.move puts the temporary file in the place of the target
move(i) ==
    LET job == jobs[i]
        written == File((DumpGuild :> job.text))
    IN
    /\ job.pc = "dumped"
    /\ jobs' = [jobs EXCEPT ![i] = [job EXCEPT !.pc = "moved"]]
    /\ warnings_file' = IF job.target = "warnings" THEN written ELSE warnings_file
    /\ warnings_backup_file' =
          IF job.target = "warnings_backup" THEN written ELSE warnings_backup_file
    /\ UNCHANGED <<warnings_data, streak, nukeVars, spam_tracker, diskVars, siblingVars,
                   runVars, calls, last, out>>

\* the count a resumed warn call works with: its local warning_count, read
\* when it incremented -- here read again from the table instead
warning_count_reread(at_increment, in_table) == in_table

\* the count a resumed warn call works with: its local warning_count, read
\* when it incremented
warning_count(at_increment, in_table) == at_increment

\* warn up to its first await: the increment, the read of warning_count and
\* the hand-over of the table to the executor
warn_begin(g, u) ==
    LET guild_id == str(g)
        user_id == str(u)
        d0 == setdefault2(warnings_data, guild_id, user_id, 0)
        d1 == assign2(d0, guild_id, user_id, d0[guild_id][user_id] + 1)
    IN
    /\ warnings_data' = d1
    /\ calls' = Append(calls, Frame("warn", "save", g, u, d1[guild_id][user_id]))
    /\ jobs' = Append(observed(jobs, d1), submit("warnings", d1))
    /\ out' = << Eff("save_warnings", 0) >>
    /\ last' = Call("warn", g, u, WordArg(""), {}, now, StoredOr0(g, u),
                     d1[guild_id][user_id], "save")
    /\ UNCHANGED <<warnings_file, warnings_backup_file, streak, nukeVars, spam_tracker,
                   diskVars, siblingVars, runVars>>

\* warn resumed by the end of a job: after the primary the backup is handed
\* over; after the backup, or a failed primary, the direct message is sent
warn_saved(i) ==
    LET call == calls[i]
        job == jobs[i]
        count == warning_count(call.n, StoredOr0(call.g, call.u))
    IN
    /\ call.op = "warn"
    /\ call.pc = "save"
    /\ job.pc \in {"moved", "failed"}
    /\ IF job.target = "warnings" /\ job.pc = "moved"
       THEN /\ jobs' = [jobs EXCEPT ![i] = submit("warnings_backup", warnings_data)]
            /\ out' = << >>
            /\ UNCHANGED calls
       ELSE /\ calls' = [calls EXCEPT ![i].pc = "dm"]
            /\ out' = << Eff("dm", count) >>
            /\ UNCHANGED jobs
    /\ last' = Call("warn", call.g, call.u, WordArg(""), {}, now, -1, count, "saved")
    /\ UNCHANGED <<warnVars, nukeVars, spam_tracker, diskVars, siblingVars, runVars>>

\* warn resumed by member.send, delivered or not: the channel reply is sent
warn_dm_done(i, dmOK) ==
    LET call == calls[i]
        count == warning_count(call.n, StoredOr0(call.g, call.u))
    IN
    /\ call.op = "warn"
    /\ call.pc = "dm"
    /\ calls' = [calls EXCEPT ![i].pc = "send"]
    /\ out' = << Eff("send", count) >>
    /\ last' = Call("warn", call.g, call.u, WordArg(""), {}, now, -1, count,
                     IF dmOK THEN "dm" ELSE "dm_failed")
    /\ UNCHANGED <<warnVars, nukeVars, spam_tracker, diskVars, siblingVars, runVars, jobs>>

\* warn resumed by ctx.send: the punishment the count calls for is requested
warn_sent(i) ==
    LET call == calls[i]
        count == warning_count(call.n, StoredOr0(call.g, call.u))
        requested == escalate(count, TRUE)
    IN
    /\ call.op = "warn"
    /\ call.pc = "send"
    /\ calls' = [calls EXCEPT ![i] = [call EXCEPT !.acted = count,
                                                  !.pc = IF requested = << >> THEN "done"
                                                         ELSE "enforce"]]
    /\ out' = IF requested = << >> THEN << >> ELSE << requested[1] >>
    /\ last' = Call("warn", call.g, call.u, WordArg(""), {}, now, -1, count, "sent")
    /\ UNCHANGED <<warnVars, nukeVars, spam_tracker, diskVars, siblingVars, runVars, jobs>>

\* warn resumed by the enforcement call: its outcome is reported
warn_enforced(i, enfOK) ==
    LET call == calls[i] IN
    /\ call.op = "warn"
    /\ call.pc = "enforce"
    /\ calls' = [calls EXCEPT ![i].pc = "done"]
    /\ out' = << Eff(IF enfOK THEN "send" ELSE "send_failure", 0) >>
    /\ last' = Call("warn", call.g, call.u, WordArg(""), {}, now, -1, call.acted,
                     "enforced")
    /\ UNCHANGED <<warnVars, nukeVars, spam_tracker, diskVars, siblingVars, runVars, jobs>>

\* on_message without the reset after a violation
on_message_reset_skipped(tracker, g, u) == tracker

\* on_message: the assignment of a fresh history after a violation
on_message_reset(tracker, g, u) == assign2(tracker, g, u, reset_history(tracker[g][u]))

\* on_message up to its first await.  A message that is no violation is
\* handled in one stretch; a violation requests the configured punishment
\* and the call is suspended with the history as it was
on_message_begin(g, u, isBot, inGuild, isMember, roles, content, mention_count) ==
    LET t0 == setdefault2(spam_tracker, g, u, no_history)
        time_window == security_settings.antispam_time_window
        recent == recent_messages(t0[g][u].messages, now, time_window)
        n_duplicate == duplicate_count(recent, content)
        reasons == spam_reason(Len(recent), mention_count, n_duplicate)
        checked == /\ ~isBot /\ inGuild /\ isMember
                   /\ security_settings.antispam_enabled
                   /\ ~is_whitelisted(roles)
        requested == spam_response(TRUE, TRUE)
    IN
    IF checked /\ reasons # << >>
    THEN /\ spam_tracker' = t0
         /\ calls' = Append(calls, Frame("message",
                                         IF Len(requested) = 3 THEN "punish" ELSE "delete",
                                         g, u, Len(recent)))
         /\ jobs' = Append(jobs, NoJob)
         /\ out' = reasons \o << requested[1] >>
         /\ last' = MsgCall(g, u, isBot, content, mention_count, roles, n_duplicate,
                            Len(recent), "spam")
         /\ UNCHANGED <<warnVars, nukeVars, diskVars, siblingVars, runVars>>
    ELSE on_message(g, u, isBot, inGuild, isMember, roles, content, mention_count,
                    TRUE, TRUE)

\* on_message resumed by the punishment call: the deletion of the message
\* is requested, or, the punishment having raised, the error is logged and
\* the history reset
on_message_punished(i, enfOK) ==
    LET call == calls[i] IN
    /\ call.op = "message"
    /\ call.pc = "punish"
    /\ IF enfOK
       THEN /\ calls' = [calls EXCEPT ![i].pc = "delete"]
            /\ out' = << Eff("delete", 1) >>
            /\ UNCHANGED spam_tracker
       ELSE /\ calls' = [calls EXCEPT ![i].pc = "done"]
            /\ out' = << Eff("log_error", 0) >>
            /\ spam_tracker' = on_message_reset(spam_tracker, call.g, call.u)
    /\ last' = MsgCall(call.g, call.u, FALSE, "", 0, {}, -1, call.n,
                       IF enfOK THEN "punished" ELSE "punish_failed")
    /\ UNCHANGED <<warnVars, nukeVars, diskVars, siblingVars, runVars, jobs>>

\* on_message resumed by message.delete, whatever its outcome: the
\* violation is logged and the history reset
on_message_deleted(i, delOK) ==
    LET call == calls[i] IN
    /\ call.op = "message"
    /\ call.pc = "delete"
    /\ calls' = [calls EXCEPT ![i].pc = "done"]
    /\ out' = << Eff("log_warning", 0) >>
    /\ spam_tracker' = on_message_reset(spam_tracker, call.g, call.u)
    /\ last' = MsgCall(call.g, call.u, FALSE, "", 0, {}, -1, call.n,
                       IF delOK THEN "deleted" ELSE "delete_failed")
    /\ UNCHANGED <<warnVars, nukeVars, diskVars, siblingVars, runVars, jobs>>

(***************************************************************************)
(* Warn calls of one guild that overlap: a moderator warns while earlier   *)
(* calls are still suspended and their saves still run in the executor.    *)
(* Member 1 of the guild starts just below a tier, member 2 has no entry.  *)
(***************************************************************************)
ThreadCounts == {2, 5}

ThreadDoc(c0) == [g \in {DumpGuild} |-> [u \in {"1"} |-> c0]]

InitThread == \E c0 \in ThreadCounts : InitFrom(File(ThreadDoc(c0)), MISSING, MISSING)

ThreadWarn ==
    /\ Len(calls) < MaxCalls
    /\ \E u \in Users : warn_begin(1, u)

ThreadSaved == \E i \in DOMAIN calls : warn_saved(i)

ThreadDm == \E i \in DOMAIN calls, dmOK \in BOOLEAN : warn_dm_done(i, dmOK)

ThreadSent == \E i \in DOMAIN calls : warn_sent(i)

ThreadEnforced == \E i \in DOMAIN calls, enfOK \in BOOLEAN : warn_enforced(i, enfOK)

ThreadDumpBegin == \E i \in DOMAIN jobs : dump_begin(i)

ThreadDumpNext == \E i \in DOMAIN jobs : dump_next(i)

ThreadMove == \E i \in DOMAIN jobs : move(i)

NextThread ==
    \/ ThreadWarn
    \/ ThreadSaved
    \/ ThreadDm
    \/ ThreadSent
    \/ ThreadEnforced
    \/ ThreadDumpBegin
    \/ ThreadDumpNext
    \/ ThreadMove

SpecThread == InitThread /\ [][NextThread]_vars

(***************************************************************************)
(* Messages of one member that arrive while the punishment requested for   *)
(* an earlier message of theirs has not returned yet.                      *)
(***************************************************************************)
\* the settings file of these runs: two messages per two seconds, one
\* duplicate, one mention
OverlapSettings ==
    [antispam_time_window |-> 2,
     antispam_message_limit |-> 2,
     antispam_duplicate_limit |-> 1,
     antispam_mention_limit |-> 1]

InitOverlap == InitFrom(File(StartDoc), MISSING, File(OverlapSettings))

OverlapMessage ==
    \E p \in SpamAuthors, mention_count \in MentionCounts :
        \E content \in Texts(p[1], p[2]) :
            /\ Len(History(p[1], p[2]).messages) <= security_settings.antispam_message_limit
            /\ Len(calls) < MaxCalls
            /\ on_message_begin(p[1], p[2], FALSE, TRUE, TRUE, {2}, content, mention_count)

OverlapPunished == \E i \in DOMAIN calls, enfOK \in BOOLEAN : on_message_punished(i, enfOK)

OverlapDeleted == \E i \in DOMAIN calls, delOK \in BOOLEAN : on_message_deleted(i, delOK)

OverlapTick == Tick(MaxTime)

NextOverlap == OverlapMessage \/ OverlapPunished \/ OverlapDeleted \/ OverlapTick

SpecOverlap == InitOverlap /\ [][NextOverlap]_vars

(***************************************************************************)
(* The whitelist under add and remove, and the two detectors looking at    *)
(* members who hold any of the roles.  The previous run left a whitelist   *)
(* of its own making in the settings file.                                 *)
(***************************************************************************)
WhitelistFiles ==
    {MISSING} \cup {File([whitelisted_roles |-> w]) : w \in {<< "1" >>, << "2", "1" >>}}

InitWhitelist == \E sfile \in WhitelistFiles : InitFrom(File(StartDoc), MISSING, sfile)

WhitelistCommand ==
    \E a \in {"add", "remove", "list"}, r \in Roles, okSave \in BOOLEAN :
        /\ security_whitelist(a, r, okSave)
        /\ UNCHANGED <<warnVars, extraVars>>

WhitelistMessage ==
    \E roles \in SUBSET Roles :
        /\ Len(History(1, 1).messages) <= MaxRecords
        /\ on_message(1, 1, FALSE, TRUE, TRUE, roles, RepeatedText, 0, TRUE, TRUE)

WhitelistEvent ==
    \E roles \in SUBSET Roles :
        /\ on_guild_role_delete(1, 1, "match", TRUE, roles, TRUE)
        /\ Capped(<<1, 1>>, MaxRecords)

NextWhitelist == WhitelistCommand \/ WhitelistMessage \/ WhitelistEvent

SpecWhitelist == InitWhitelist /\ [][NextWhitelist]_vars

(***************************************************************************)
(* Commands passing the pre-invocation hook: the owner (user 1) and        *)
(* another user type work, stop and ping, in guild 1 and in direct         *)
(* messages, with the clock running; the process dies and starts again.    *)
(* The previous run left any state file, or none.                          *)
(***************************************************************************)
MAIN_OWNER_ID == 1

StateFiles == {MISSING, CORRUPT, PARTIAL, File([enabled |-> TRUE]), File([enabled |-> FALSE])}

InitGuard == \E bfile \in StateFiles : InitWith(MISSING, MISSING, MISSING, bfile)

GuardCommand ==
    \E name \in {"work", "stop", "ping"}, g \in {0, 1}, u \in Users, okSave \in BOOLEAN :
        /\ writer.pc = "idle"
        /\ invoke(name, g, u, u = MAIN_OWNER_ID, okSave)

GuardTick == writer.pc = "idle" /\ Tick(MaxSpamTime)

NextGuard == GuardCommand \/ GuardTick \/ Crash \/ Restart

SpecGuard == InitGuard /\ [][NextGuard]_vars

(***************************************************************************)
(* Attribution: destructive events of one guild whose audit-log lookup     *)
(* raises, finds nothing, finds an entry about another target, or finds    *)
(* the entry of the event; the entry names member 1, who holds no          *)
(* whitelisted role.  A previous run left the thresholds 1 (kick) and 2     *)
(* (ban) in the settings file; the clock stands still.                     *)
(***************************************************************************)
AuditResults == {"error", "none", "mismatch", "match"}

InitAudit ==
    InitFrom(File(StartDoc), MISSING,
             File([antinuke_kick_threshold |-> 1, antinuke_ban_threshold |-> 2]))

AuditBan ==
    \E audit \in AuditResults :
        /\ on_member_ban(1, 1, audit, TRUE, {2}, TRUE)
        /\ Capped(<<1, 1>>, MaxRecords)

AuditKick ==
    \E audit \in AuditResults :
        /\ on_member_remove(1, 1, audit, TRUE, {2}, TRUE)
        /\ Capped(<<1, 1>>, MaxRecords)

AuditRoleDelete ==
    \E audit \in AuditResults :
        /\ on_guild_role_delete(1, 1, audit, TRUE, {2}, TRUE)
        /\ Capped(<<1, 1>>, MaxRecords)

AuditChannelDelete ==
    \E audit \in AuditResults :
        /\ on_guild_channel_delete(1, 1, audit, TRUE, {2}, TRUE)
        /\ Capped(<<1, 1>>, MaxRecords)

AuditBulkDelete ==
    \E audit \in AuditResults :
        /\ on_bulk_message_delete(1, 1, audit, TRUE, {2}, TRUE)
        /\ Capped(<<1, 1>>, MaxRecords)

NextAudit ==
    AuditBan \/ AuditKick \/ AuditRoleDelete \/ AuditChannelDelete \/ AuditBulkDelete

SpecAudit == InitAudit /\ [][NextAudit]_vars

(***************************************************************************)
(* Punishments that may fail: warn commands against one member and         *)
(* destructive actions of one actor under the default thresholds, each     *)
(* enforcement call succeeding or raising.  The clock stands still.        *)
(***************************************************************************)
EnforceWarn ==
    \E enfOK \in BOOLEAN :
        /\ warn(1, 1, FALSE, TRUE, TRUE, TRUE, enfOK)
        /\ UNCHANGED <<nukeVars, extraVars>>

EnforceBan ==
    \E enfOK \in BOOLEAN :
        /\ on_member_ban(1, 1, "match", TRUE, {2}, enfOK)
        /\ Capped(<<1, 1>>, MaxBurst)

EnforceRoleDelete ==
    \E enfOK \in BOOLEAN :
        /\ on_guild_role_delete(1, 1, "match", TRUE, {2}, enfOK)
        /\ Capped(<<1, 1>>, MaxBurst)

NextEnforce == EnforceWarn \/ EnforceBan \/ EnforceRoleDelete

SpecEnforce == Init /\ [][NextEnforce]_vars

(***************************************************************************)
(* The admin configuration commands: antinuke, antispam, securitywhitelist,*)
(* one call at a time, with the disk always writable.  Each call is typed  *)
(* as an action word and a value.                                          *)
(***************************************************************************)
\* what an admin types after /antinuke
AntinukeInputs ==
    { <<"enable", WordArg("")>>,
      <<"BanThreshold", IntArg(1)>>, <<"banthreshold", IntArg(0)>>,
      <<"kickthreshold", WordArg("abc")>>,
      <<"timewindow", WordArg("")>>, <<"timewindow", IntArg(-1)>>,
      <<"reset", IntArg(1)>> }

\* what an admin types after /antispam
AntispamInputs ==
    { <<"disable", WordArg("")>>,
      <<"MessageLimit", IntArg(2)>>, <<"messagelimit", IntArg(0)>>,
      <<"mentionlimit", WordArg("abc")>>, <<"duplicatelimit", IntArg(-1)>>,
      <<"Action", WordArg("KICK")>>, <<"action", WordArg("warn")>>,
      <<"muteduration", WordArg("")>>, <<"reset", IntArg(1)>> }

ConfigAntinuke ==
    /\ Ready("antinuke")
    /\ \E i \in AntinukeInputs : antinuke_config(i[1], i[2])

ConfigAntispam ==
    /\ Ready("antispam")
    /\ \E i \in AntispamInputs : antispam_config(i[1], i[2])

ConfigWhitelist ==
    /\ Ready("securitywhitelist")
    /\ \E a \in {"add", "remove", "list"} : security_whitelist(a, 1, TRUE)
    /\ UNCHANGED <<warnVars, extraVars>>

NextConfig == ConfigAntinuke \/ ConfigAntispam \/ ConfigWhitelist

SpecConfig == Init /\ [][NextConfig]_vars

(***************************************************************************)
(* Loading the settings from whatever a previous run or an operator left   *)
(* in security_settings.json: no file, an unparsable file, or an object    *)
(* with any subset of the recognized keys, each with a value other than    *)
(* its default.  The process dies and starts again, which repeats the load.*)
(***************************************************************************)
OtherSettings ==
    [antinuke_enabled |-> FALSE,
     antispam_enabled |-> FALSE,
     antinuke_ban_threshold |-> 4,
     antinuke_kick_threshold |-> 2,
     antinuke_time_window |-> 7,
     antispam_message_limit |-> 9,
     antispam_time_window |-> 3,
     antispam_mention_limit |-> 2,
     antispam_duplicate_limit |-> 4,
     antispam_action |-> "ban",
     antispam_mute_duration |-> 30,
     whitelisted_roles |-> << "2" >>,
     log_channel |-> "77"]

SettingsFiles ==
    {MISSING, CORRUPT}
    \cup {File([k \in keys |-> OtherSettings[k]]) : keys \in SUBSET DOMAIN OtherSettings}

InitSettings == \E sfile \in SettingsFiles : InitFrom(File(StartDoc), MISSING, sfile)

NextSettings == Crash \/ Restart

SpecSettings == InitSettings /\ [][NextSettings]_vars

(***************************************************************************)
(* The commands that save one of the three documents: warn (warnings),     *)
(* securitywhitelist (settings), work and stop (enablement), one call at a *)
(* time, with the disk always writable.                                    *)
(***************************************************************************)
SaveWarn ==
    /\ Ready("warn")
    /\ \E t \in WarnTargets :
           /\ StoredOr0(t[1], t[2]) < MaxSaves
           /\ warn(t[1], t[2], FALSE, TRUE, TRUE, TRUE, TRUE)
    /\ UNCHANGED <<nukeVars, extraVars>>

SaveWhitelist ==
    /\ Ready("securitywhitelist")
    /\ \E a \in {"add", "remove"}, r \in Roles : security_whitelist(a, r, TRUE)
    /\ UNCHANGED <<warnVars, extraVars>>

SaveWork ==
    /\ Ready("work")
    /\ \E isOwner \in BOOLEAN : work_command(isOwner, TRUE)
    /\ UNCHANGED <<warnVars, nukeVars, spam_tracker, tmp_file, writer, siblingVars,
                   runVars, asyncVars>>

SaveStop ==
    /\ Ready("stop")
    /\ \E isOwner \in BOOLEAN : stop_command(isOwner, TRUE)
    /\ UNCHANGED <<warnVars, nukeVars, spam_tracker, tmp_file, writer, siblingVars,
                   runVars, asyncVars>>

NextSave == SaveWarn \/ SaveWhitelist \/ SaveWork \/ SaveStop

SpecSave == Init /\ [][NextSave]_vars

(***************************************************************************)
(* Properties of the warning commands.                                     *)
(***************************************************************************)
Enforcements(o) == SelectSeq(o, LAMBDA e : e.op \in {"mute", "kick", "ban"})
Position(o, op) == IF \E i \in 1..Len(o) : o[i].op = op
                   THEN CHOOSE i \in 1..Len(o) : o[i].op = op /\ \A j \in 1..(i-1) : o[j].op # op
                   ELSE 0
StoredCount(g, u) == warnings_data[ToString(g)][ToString(u)]
HasRecord(g, u) == ToString(g) \in DOMAIN warnings_data
                   /\ ToString(u) \in DOMAIN warnings_data[ToString(g)]
WarnDone == last.op = "warn" /\ last.status = "ok"
ClearDone == last.op = "clearwarns" /\ last.status = "ok"
IsAll(a) == a.txt \in {"all", "ALL", "All"}
IsNumber(a) == a.txt = ""
InvalidAmount(a) == (IsNumber(a) /\ a.n <= 0) \/ (~IsNumber(a) /\ ~IsAll(a))

\* C1: the enforcement request of a warn call is fixed by the post-increment
\* count c alone: 3 -> mute 10 minutes, 4 -> mute 60 minutes, 6 -> kick,
\* above 6 -> ban, 1, 2 and 5 -> nothing; never more than one request per call.
C1_EscalationTable ==
    last.op = "warn" =>
        LET c == last.n
            req == Enforcements(out)
        IN /\ Len(req) <= 1
           /\ last.status = "self" => req = << >>
           /\ last.status = "ok" =>
                /\ c >= 1
                /\ c \in {1, 2, 5} => req = << >>
                /\ c = 3 => req = << [op |-> "mute", arg |-> 10] >>
                /\ c = 4 => req = << [op |-> "mute", arg |-> 60] >>
                /\ c = 6 => req = << [op |-> "kick", arg |-> 0] >>
                /\ c > 6 => req = << [op |-> "ban", arg |-> 0] >>

C1_Witness ==
    /\ WarnDone
    /\ last.n = 7
    /\ last.prev = 6
    /\ Enforcements(out) = << [op |-> "ban", arg |-> 0] >>

\* C2: N warns in a row on a user who started without a record, or whose
\* warnings were all cleared, leave the stored count at N, and the N-th call
\* observes N; in particular clearwarns all followed by one warn leaves 1.
C2_ConsecutiveWarnsCount ==
    /\ \A t \in Guilds \X Users :
          streak[t] > 0 => HasRecord(t[1], t[2]) /\ StoredCount(t[1], t[2]) = streak[t]
    /\ WarnDone /\ streak[<<last.g, last.u>>] > 0 => last.n = streak[<<last.g, last.u>>]

C2_Witness ==
    /\ streak[<<1, 1>>] = 3
    /\ WarnDone /\ last.g = 1 /\ last.u = 2
    /\ last.prev = 0
    /\ streak[<<1, 2>>] = 1
    /\ StoredCount(1, 2) = 1

\* C3: every stored warning count is an integer >= 0, and clearing more
\* warnings than the user has leaves the count at 0.
C3_CountNeverNegative ==
    /\ \A g \in DOMAIN warnings_data : \A u \in DOMAIN warnings_data[g] :
          warnings_data[g][u] \in Nat
    /\ ClearDone /\ IsNumber(last.amount) /\ last.amount.n > last.prev
          => StoredCount(last.g, last.u) = 0

C3_Witness ==
    /\ ClearDone
    /\ IsNumber(last.amount)
    /\ last.prev = 1
    /\ last.amount.n = 2
    /\ StoredCount(last.g, last.u) = 0

\* C4: clearwarns with a positive amount a on a count c reports min(a, c) and
\* leaves c - min(a, c); with "all" it reports c and leaves 0; the updated
\* table is handed to save_warnings before the result is sent.
C4_ClearReportsAndPersists ==
    ClearDone =>
        LET c == last.prev
            a == last.amount.n
            m == IF a <= c THEN a ELSE c
        IN /\ IsNumber(last.amount) =>
                /\ a >= 1
                /\ last.n = m
                /\ StoredCount(last.g, last.u) = c - m
           /\ IsAll(last.amount) =>
                /\ last.n = c
                /\ StoredCount(last.g, last.u) = 0
           /\ IsNumber(last.amount) \/ IsAll(last.amount)
           /\ Position(out, "save_warnings") >= 1
           /\ Position(out, "save_warnings") < Position(out, "send")
           /\ out[Position(out, "send")].arg = last.n
           /\ warnings_file = [st |-> "ok", doc |-> warnings_data]

C4_Witness ==
    /\ ClearDone
    /\ IsNumber(last.amount)
    /\ last.prev = 3
    /\ last.amount.n = 2
    /\ last.n = 2
    /\ StoredCount(last.g, last.u) = 1

\* C5: clearwarns with a non-positive or unparsable amount changes neither the
\* warning table nor the files, and requests no save.
C5_InvalidAmountRejected ==
    [][ (last'.op = "clearwarns" /\ InvalidAmount(last'.amount))
          => /\ warnings_data' = warnings_data
             /\ warnings_file' = warnings_file
             /\ warnings_backup_file' = warnings_backup_file
             /\ Position(out', "save_warnings") = 0
             /\ last'.status # "ok" ]_vars

C5_Witness ==
    /\ last.op = "clearwarns"
    /\ last.status = "not_positive"
    /\ last.amount.n = 0
    /\ last.prev = 2
    /\ StoredCount(last.g, last.u) = 2

(***************************************************************************)
(* Properties of the anti-nuke detector.                                   *)
(***************************************************************************)
DestructiveKinds == {"ban", "kick", "role_delete", "channel_delete", "bulk_delete"}
Tracked == last.op \in DestructiveKinds /\ last.status = "tracked"
Actor == <<last.g, last.u>>
Requested(o, op) == \E i \in 1..Len(o) : o[i].op = op
BanThreshold == security_settings.antinuke_ban_threshold
KickThreshold == security_settings.antinuke_kick_threshold
Window == security_settings.antinuke_time_window
HoldsWhitelistedRole(roles) ==
    \E r \in roles : \E i \in 1..Len(security_settings.whitelisted_roles) :
        security_settings.whitelisted_roles[i] = ToString(r)

C7_ThresholdPolicy ==
    Tracked =>
        IF last.n >= BanThreshold
        THEN Requested(out, "ban") /\ ~Requested(out, "kick")
        ELSE IF last.n >= KickThreshold
        THEN Requested(out, "kick") /\ ~Requested(out, "ban")
        ELSE ~Requested(out, "kick") /\ ~Requested(out, "ban")

\* C8: no destructive-action event requests both a ban and a kick; when the
\* count meets both thresholds only the ban is requested.
C8_BanExcludesKick ==
    last.op \in DestructiveKinds =>
        /\ ~(Requested(out, "ban") /\ Requested(out, "kick"))
        /\ Len(Enforcements(out)) <= 1
        /\ (Tracked /\ last.n >= BanThreshold /\ last.n >= KickThreshold)
              => Requested(out, "ban") /\ ~Requested(out, "kick")

C8_Witness ==
    /\ Tracked
    /\ last.n >= BanThreshold
    /\ last.n >= KickThreshold
    /\ BanThreshold > KickThreshold
    /\ Enforcements(out) = << [op |-> "ban", arg |-> last.n] >>

\* C9: with kick threshold 3 and ban threshold 5 and all actions of the actor
\* inside one window, the 1st and 2nd action request nothing, the 3rd (and
\* 4th) a kick, the 5th a ban and no kick.
C9_DefaultThresholdBurst ==
    (/\ Tracked
     /\ KickThreshold = 3
     /\ BanThreshold = 5
     /\ \A i \in 1..Len(recorded[Actor]) : last.t - recorded[Actor][i] < Window)
    => LET nth == Len(recorded[Actor])
           req == Enforcements(out)
       IN /\ nth \in {1, 2} => req = << >>
          /\ nth \in {3, 4} => req = << [op |-> "kick", arg |-> nth] >>
          /\ nth >= 5 => req = << [op |-> "ban", arg |-> nth] >>

C9_Witness ==
    /\ Tracked
    /\ KickThreshold = 3
    /\ BanThreshold = 5
    /\ Window = 2
    /\ Len(recorded[Actor]) = 5
    /\ recorded[Actor][1] = 1
    /\ last.t = 2
    /\ Enforcements(out) = << [op |-> "ban", arg |-> 5] >>

\* C10: with the detector disabled, or for an actor holding a whitelisted
\* role, a destructive-action event of any of the five kinds leaves
\* user_action_tracker unchanged and requests no punishment.
C10_DroppedEventFrame ==
    [][ (/\ last'.op \in DestructiveKinds
         /\ \/ ~security_settings.antinuke_enabled
            \/ HoldsWhitelistedRole(last'.roles))
        => /\ user_action_tracker' = user_action_tracker
           /\ Enforcements(out') = << >>
           /\ last'.status \in {"disabled", "whitelisted"} ]_vars

C10_Witness ==
    /\ last.op = "bulk_delete"
    /\ last.status = "whitelisted"
    /\ security_settings.antinuke_enabled
    /\ 1 \in DOMAIN user_action_tracker
    /\ Len(user_action_tracker[1][1]) = 2
    /\ KickThreshold <= 2

(***************************************************************************)
(* Properties of the anti-spam detector.                                   *)
(***************************************************************************)
\* a step that is the handling of one message: the clock stands still
MessageStep == last'.op = "message" /\ now' = now
\* the author of the message is followed by the detector
Followed(l) == l.op = "message" /\ ~l.bot /\ ~HoldsWhitelistedRole(l.roles)
\* the author's records before and after the step
Before == History(last'.g, last'.u).messages
After ==
    IF has(spam_tracker', last'.g, last'.u)
    THEN spam_tracker'[last'.g][last'.u].messages ELSE << >>
MessageLimit == security_settings.antispam_message_limit
MentionLimit == security_settings.antispam_mention_limit
DuplicateLimit == security_settings.antispam_duplicate_limit
SpamWindow == security_settings.antispam_time_window
\* the calls of an anti-spam response
SpamCalls(o) == SelectSeq(o, LAMBDA e : e.op \in {"mute", "kick", "ban", "delete"})
Reasons(o) ==
    {e.op : e \in {o[i] : i \in 1..Len(o)}}
        \cap {"reason_messages", "reason_mentions", "reason_duplicates"}

\* C11: a message whose author is a bot or holds a whitelisted role leaves
\* spam_tracker as it was (no entry created, appended to, pruned or reset)
\* and causes no punishment, deletion or violation reason, whatever its
\* content and mention count.
C11_ExemptAuthorsUntracked ==
    [][(MessageStep /\ (last'.bot \/ HoldsWhitelistedRole(last'.roles)))
         => /\ spam_tracker' = spam_tracker
            /\ SpamCalls(out') = << >>
            /\ Reasons(out') = {}]_vars

\* a whitelisted member, with records from before the role was given, sends
\* a message whose mention count is over the limit
C11_Witness ==
    /\ last.op = "message" /\ ~last.bot /\ HoldsWhitelistedRole(last.roles)
    /\ last.amount.n > MentionLimit
    /\ History(last.g, last.u).messages # << >>
    /\ out = << Eff("process_commands", 0) >>

\* C12: with message limit L and window W, while a followed author sends
\* distinct, mention-free messages that all lie inside one window, a message
\* that finds fewer than L records is recorded and nothing is done to the
\* author, and the message that finds L records, the (L+1)-th, is answered
\* with the configured punishment.
C12_FloodLimit ==
    [][(/\ MessageStep /\ Followed(last')
        /\ last'.amount.n = 0
        /\ \A i \in 1..Len(Before) :
               /\ Before[i].content # last'.amount.txt
               /\ now - Before[i].timestamp < SpamWindow
               /\ \A j \in 1..Len(Before) : i # j => Before[i].content # Before[j].content)
         => /\ Len(Before) < MessageLimit
                => /\ After = Append(Before, Record(last'.amount.txt, now))
                   /\ SpamCalls(out') = << >>
            /\ Len(Before) >= MessageLimit
                => /\ Len(Before) = MessageLimit
                   /\ Len(SpamCalls(out')) >= 1
                   /\ SpamCalls(out')[1].op = security_settings.antispam_action]_vars

\* the sixth distinct, mention-free message inside the five-second window
C12_Witness ==
    /\ Followed(last) /\ last.status = "spam"
    /\ MessageLimit = 5 /\ SpamWindow = 5
    /\ last.n = 5 /\ last.prev = 0 /\ last.amount.n = 0
    /\ Len(Enforcements(out)) = 1 /\ Enforcements(out)[1].op = "mute"

\* C13 as stated: a record of age between W and 2W (outside the detection
\* window, still retained) with the content of the incoming message counts
\* towards the duplicate count measured for that message.
C13_DuplicatesAcrossWindow ==
    [][(MessageStep /\ Followed(last'))
         => last'.prev >= Cardinality({i \in 1..Len(Before) :
                               /\ Before[i].content = last'.amount.txt
                               /\ now - Before[i].timestamp > SpamWindow
                               /\ now - Before[i].timestamp < 2 * SpamWindow})]_vars

\* C14: once a message has been judged a spam violation and its handler has
\* finished, the author's history in that guild is empty (so the triggering
\* message is not on record), for each configured action and whether or not
\* the punishment call succeeded.
C14_ViolationResetsHistory ==
    (Followed(last) /\ last.status = "spam")
        => /\ has(spam_tracker, last.g, last.u)
           /\ spam_tracker[last.g][last.u] = [messages |-> << >>, last_message |-> 0]

\* a violation by a member with records, whose kick was refused
C14_Witness ==
    /\ Followed(last) /\ last.status = "spam" /\ last.n >= 1
    /\ security_settings.antispam_action = "kick"
    /\ Requested(out, "kick") /\ Requested(out, "log_error")
    /\ History(last.g, last.u).messages = << >>

\* C15 as stated: on every spam violation the deletion of the triggering
\* message is attempted, also when the punishment call failed.
C15_DeletionAlwaysAttempted ==
    (Followed(last) /\ last.status = "spam") => Requested(out, "delete")

\* C16: when a followed author's message at time T is not a violation, it is
\* the newest record of the author's history afterwards, no retained record
\* is older than twice the detection window, and the records older than the
\* window but younger than twice the window are still there.
C16_AppendThenPrune ==
    [][(MessageStep /\ Followed(last') /\ last'.status = "accepted")
         => /\ After # << >>
            /\ After[Len(After)] = [content |-> last'.amount.txt, timestamp |-> now]
            /\ \A i \in 1..Len(After) : now - After[i].timestamp <= 2 * SpamWindow
            /\ \A i \in 1..Len(Before) :
                   (/\ now - Before[i].timestamp > SpamWindow
                    /\ now - Before[i].timestamp < 2 * SpamWindow)
                       => \E j \in 1..Len(After) : After[j] = Before[i]]_vars

\* an accepted message, with an older record between W and 2W still retained
C16_Witness ==
    /\ Followed(last) /\ last.status = "accepted" /\ last.t = now
    /\ \E i \in 1..Len(History(last.g, last.u).messages) :
           /\ now - History(last.g, last.u).messages[i].timestamp > SpamWindow
           /\ now - History(last.g, last.u).messages[i].timestamp < 2 * SpamWindow
    /\ History(last.g, last.u).messages[Len(History(last.g, last.u).messages)]
           = [content |-> last.amount.txt, timestamp |-> now]

\* the three values on_message measures: the author's records inside the
\* detection window, and those of them with the content of the new message
InWindow == {i \in 1..Len(Before) : now - Before[i].timestamp < SpamWindow}
InWindowEqual == {i \in InWindow : Before[i].content = last'.amount.txt}

\* C17 as stated: a violation is raised exactly when one of the three
\* measured values is greater than its limit, and the reasons reported are
\* those of the checks whose value is greater than its limit.
C17_ExceedsLimit ==
    [][(MessageStep /\ Followed(last'))
         => /\ last'.status = "spam"
                <=> \/ Cardinality(InWindow) > MessageLimit
                    \/ last'.amount.n > MentionLimit
                    \/ Cardinality(InWindowEqual) > DuplicateLimit
            /\ "reason_messages" \in Reasons(out')
                <=> Cardinality(InWindow) > MessageLimit
            /\ "reason_mentions" \in Reasons(out')
                <=> last'.amount.n > MentionLimit
            /\ "reason_duplicates" \in Reasons(out')
                <=> Cardinality(InWindowEqual) > DuplicateLimit]_vars

\* C17, amended: the flood check and the duplicate check fire when their
\* count, taken over the records stored before the incoming message, has
\* reached the limit; the mention check fires when the mention count is
\* greater than the limit.  A violation is raised exactly when a check
\* fires, with one reason per check that fired.
C17_ReachesLimit ==
    [][(MessageStep /\ Followed(last'))
         => /\ last'.status = "spam"
                <=> \/ Cardinality(InWindow) >= MessageLimit
                    \/ last'.amount.n > MentionLimit
                    \/ Cardinality(InWindowEqual) >= DuplicateLimit
            /\ last'.status = "accepted" <=> last'.status # "spam"
            /\ "reason_messages" \in Reasons(out')
                <=> Cardinality(InWindow) >= MessageLimit
            /\ "reason_mentions" \in Reasons(out')
                <=> last'.amount.n > MentionLimit
            /\ "reason_duplicates" \in Reasons(out')
                <=> Cardinality(InWindowEqual) >= DuplicateLimit
            /\ Len(SelectSeq(out', LAMBDA e : e.op \in Reasons(out')))
                   = Cardinality(Reasons(out'))]_vars

\* a violation with the in-window count and the duplicate count exactly at
\* their limits and the mention count over its limit: three reasons
C17_Witness ==
    /\ Followed(last) /\ last.status = "spam"
    /\ last.n = MessageLimit /\ last.prev = DuplicateLimit
    /\ last.amount.n = MentionLimit + 1
    /\ Cardinality(Reasons(out)) = 3

(***************************************************************************)
(* Properties of the persisted documents.                                  *)
(***************************************************************************)
\* the save that the crash interrupted went through save_json_async
Interrupted(target) ==
    writer.pc = "crashed" /\ writer.kind = "atomic" /\ writer.target = target
BeforeReplace == writer.at \in {"start", "writing", "written"}

\* C18: when a save of the warnings or of the settings document is cut
\* short by a crash before the replace step, the primary file is what it was
\* and a load returns what it returned before; cut short after the replace
\* step, the file holds the new document and a load returns it in full; the
\* primary file of either document is never a partly written one.
C18_InterruptedSaveOldOrNew ==
    /\ warnings_file.st # "partial"
    /\ security_file.st # "partial"
    /\ Interrupted("warnings") =>
           IF BeforeReplace
           THEN /\ warnings_file = writer.prev
                /\ load_warnings(warnings_file, warnings_backup_file)
                       = load_warnings(writer.prev, warnings_backup_file)
           ELSE /\ warnings_file = [st |-> "ok", doc |-> writer.data]
                /\ load_warnings(warnings_file, warnings_backup_file) = writer.data
    /\ Interrupted("warnings_backup") =>
           /\ warnings_file = [st |-> "ok", doc |-> writer.data]
           /\ load_warnings(warnings_file, warnings_backup_file) = writer.data
    /\ Interrupted("security") =>
           IF BeforeReplace
           THEN /\ security_file = writer.prev
                /\ load_security_settings(security_file)
                       = load_security_settings(writer.prev)
           ELSE /\ security_file = [st |-> "ok", doc |-> writer.data]
                /\ load_security_settings(security_file) = writer.data

\* a crash after the temporary file of a changed warnings document was
\* written and before it was moved over warnings.json
C18_Witness ==
    /\ Interrupted("warnings") /\ writer.at = "written"
    /\ tmp_file = [st |-> "ok", doc |-> writer.data]
    /\ writer.prev.st = "ok" /\ writer.prev.doc # writer.data
    /\ warnings_file = writer.prev

\* C19 as stated: none of the four persisted documents is ever on disk in
\* a partly written state, whether a reader looks or the process dies.
C19_NeverPartlyWritten ==
    /\ warnings_file.st # "partial"
    /\ warnings_backup_file.st # "partial"
    /\ security_file.st # "partial"
    /\ bot_state_file.st # "partial"

\* C20 as stated: as long as no command has run since the warnings were
\* loaded, the warnings in memory are the primary file's document when it
\* parses, else the backup's document when that parses, else empty.
C20_LoadFallsBackToBackup ==
    last.op \in {"none", "on_resume"}
        => warnings_data =
               IF warnings_file.st = "ok" THEN warnings_file.doc
               ELSE IF warnings_backup_file.st = "ok" THEN warnings_backup_file.doc
               ELSE << >>

(***************************************************************************)
(* Properties of saving and loading the settings and of the admin          *)
(* configuration commands.                                                 *)
(***************************************************************************)
\* the last command asked for a save of the named document
SaveRequested(save) == \E i \in 1..Len(out) : out[i].op = save

\* the 13 recognized settings and their defaults, as the documentation of the
\* settings document lists them
RecognizedDefaults ==
    [antinuke_enabled |-> TRUE, antispam_enabled |-> TRUE,
     antinuke_ban_threshold |-> 5, antinuke_kick_threshold |-> 3,
     antinuke_time_window |-> 10, antispam_message_limit |-> 5,
     antispam_time_window |-> 5, antispam_mention_limit |-> 5,
     antispam_duplicate_limit |-> 3, antispam_action |-> "mute",
     antispam_mute_duration |-> 10, whitelisted_roles |-> << >>,
     log_channel |-> "None"]

\* the settings have just been loaded: at start-up or by the next run
JustLoaded == last.op \in {"none", "restart"}

\* C22: for a settings file holding an object with any subset of the
\* recognized keys, the loaded settings have all 13 recognized fields, a key
\* of the file with the file's value and an absent key with its default; a
\* missing or unparsable file gives exactly the defaults.
C22_LoadFillsDefaults ==
    JustLoaded =>
        /\ DOMAIN security_settings = DOMAIN RecognizedDefaults
        /\ Cardinality(DOMAIN security_settings) = 13
        /\ \A k \in DOMAIN RecognizedDefaults :
              security_settings[k] =
                 IF security_file.st = "ok" /\ k \in DOMAIN security_file.doc
                 THEN security_file.doc[k]
                 ELSE RecognizedDefaults[k]

\* reached: the next run loaded a file that holds the action and the
\* whitelist only; those two are the file's, the message limit is the default
C22_Witness ==
    /\ last.op = "restart"
    /\ security_file.st = "ok"
    /\ DOMAIN security_file.doc = {"antispam_action", "whitelisted_roles"}
    /\ security_settings.antispam_action = "ban"
    /\ security_settings.whitelisted_roles = << "2" >>
    /\ security_settings.antispam_message_limit = 5

\* C21: every successful save of a persisted document mirrors the same
\* content to the backup sibling of that document.  With the disk always
\* writable: after a warn that saved the warnings, the warnings backup holds
\* what the warnings file holds; after a securitywhitelist command that
\* saved the settings, the backup sibling of the settings file holds what
\* the settings file holds; after a work or stop command that saved the
\* enablement, the backup sibling of the bot state file holds what the bot
\* state file holds.
C21_EverySaveMirrored ==
    /\ (last.op = "warn" /\ SaveRequested("save_warnings"))
           => warnings_backup_file = warnings_file
    /\ (last.op = "securitywhitelist" /\ SaveRequested("save_security_settings"))
           => security_backup_file = security_file
    /\ (last.op \in {"work", "stop"} /\ SaveRequested("save_bot_state"))
           => bot_state_backup_file = bot_state_file


\* the admin actions that change the settings, by command
SettingsMutations ==
    [antinuke |-> {"enable", "disable", "banthreshold", "kickthreshold", "timewindow"},
     antispam |-> {"enable", "disable", "messagelimit", "mentionlimit",
                   "duplicatelimit", "action", "muteduration"},
     securitywhitelist |-> {"add", "remove"}]

\* the last command was an admin action that changed the settings
Mutated == last.op \in DOMAIN SettingsMutations /\ last.status \in SettingsMutations[last.op]

\* C23: after every successful settings mutation by an admin action (of the
\* antinuke, antispam and securitywhitelist commands) a save is executed:
\* with the handler finished and no I/O failure, the settings file equals the
\* in-memory settings.
C23_MutationSaved == Mutated => security_file = File(security_settings)

\* a value that is not the spelling of an integer, or is one below 1
InvalidNumber(value) == ~int_ok(value) \/ int(value) < 1

\* an antinuke call with invalid input: an unknown action word, or a number
\* setting with an invalid number
InvalidAntinuke(action0, value) ==
    \/ lower(action0) \notin SettingsMutations.antinuke
    \/ /\ lower(action0) \in {"banthreshold", "kickthreshold", "timewindow"}
       /\ InvalidNumber(value)

\* an antispam call with invalid input: an unknown action word, a number
\* setting with an invalid number, or a punishment other than mute/kick/ban
InvalidAntispam(action0, value) ==
    \/ lower(action0) \notin SettingsMutations.antispam
    \/ /\ lower(action0) \in {"messagelimit", "mentionlimit", "duplicatelimit",
                               "muteduration"}
       /\ InvalidNumber(value)
    \/ /\ lower(action0) = "action"
       /\ lower(arg_text(value)) \notin {"mute", "kick", "ban"}

\* the step leaves the settings, in memory and on disk, as they are and
\* asks for no save
NothingChanged ==
    /\ security_settings' = security_settings
    /\ security_file' = security_file
    /\ \A i \in 1..Len(out') : out'[i].op # "save_security_settings"

\* C24: an admin configuration action with invalid input (a number below 1,
\* a value that is not an integer, an anti-spam action other than
\* mute/kick/ban, an unknown action word) leaves every field of the
\* in-memory settings unchanged and requests no save.
C24_InvalidInputRejected ==
    [][/\ \A i \in AntinukeInputs :
             (InvalidAntinuke(i[1], i[2]) /\ antinuke_config(i[1], i[2]))
                => NothingChanged
       /\ \A i \in AntispamInputs :
             (InvalidAntispam(i[1], i[2]) /\ antispam_config(i[1], i[2]))
                => NothingChanged
       /\ \A a \in {"add", "remove", "list"} :
             (lower(a) \notin SettingsMutations.securitywhitelist
              /\ security_whitelist(a, 1, TRUE))
                => NothingChanged]_vars

\* reached: the punishment was set to kick and a later call asking for the
\* punishment warn was refused, kick still being the setting
C24_Witness ==
    /\ last.op = "antispam"
    /\ last.amount = WordArg("warn")
    /\ last.status = "invalid_value"
    /\ security_settings.antispam_action = "kick"
    /\ security_settings.antispam_message_limit = 2

(***************************************************************************)
(* Properties of the running process: reloads and the auto-save loop.      *)
(***************************************************************************)
\* C25: while the process runs the in-memory warning table stays
\* authoritative: no event, a reconnect handled by on_resume and a repeated
\* on_ready included, replaces an in-memory count with content from disk,
\* also when an earlier save of the warnings failed.
C25_MemoryStaysAuthoritative ==
    [][last'.op \in {"on_resume", "on_ready"} => warnings_data' = warnings_data]_vars

\* the last step was a round of the auto-save loop
Flushed == last.op = "auto_save_warnings"

\* C30 as stated: once the bot is ready, every round of the auto-save loop
\* submits the in-memory warning table for saving.
C30_EveryTickSaves == Flushed => SaveRequested("save_warnings")

\* C30: once the bot is ready, every round of the auto-save loop submits
\* the in-memory warning table for saving when the table has an entry (an
\* empty table is not written), whatever happened since the last round; the
\* round leaves the table as it is and the primary file with the table or
\* as it was; a failed flush does not stop the loop; and, the disk not
\* failing forever, a table with an entry is on disk again and again, so a
\* table that stops changing is eventually on disk.
C30_NonEmptyTableFlushed ==
    /\ [](Flushed => (SaveRequested("save_warnings") <=> warnings_data # << >>))
    /\ [][last'.op = "auto_save_warnings" =>
             /\ warnings_data' = warnings_data
             /\ warnings_file' \in {warnings_file, File(warnings_data)}
             /\ auto_save_tasks' = auto_save_tasks
             /\ auto_save_tasks' > 0]_vars
    /\ []<>(\/ auto_save_tasks = 0
            \/ warnings_data = << >>
            \/ warnings_file = File(warnings_data))

\* reached: a round of the loop wrote a table holding the warnings of the
\* followed member, which the backup file does not hold
C30_Witness ==
    /\ Flushed
    /\ SaveRequested("save_warnings")
    /\ StoredOr0(1, 1) = MaxSaves
    /\ warnings_file = File(warnings_data)
    /\ warnings_backup_file # warnings_file

(***************************************************************************)
(* Properties of failing collaborators: enforcement and notification.      *)
(***************************************************************************)
\* the enforcement call of the step raised: the warn command reports the
\* failure in the channel, the anti-nuke handler logs it
EnforcementFailed(o) == Requested(o, "send_failure") \/ Requested(o, "log_error")

\* the actions on record for the actor in the tracker
ActionsOf(tracker, g, u) == IF has(tracker, g, u) THEN tracker[g][u] ELSE << >>

\* C26: a failed enforcement call (mute, kick or ban raising) is attempted
\* once and not retried, and rolls nothing back: the warn that asked for it
\* leaves the count incremented, in memory and on disk, and the anti-nuke
\* event that asked for it leaves its action record in the tracker; no later
\* step lowers the count or drops the record.
C26_FailedEnforcementNoRollback ==
    [][/\ EnforcementFailed(out') => Len(Enforcements(out')) = 1
       /\ (last'.op = "warn" /\ EnforcementFailed(out')) =>
             /\ StoredOr0(1, 1)' = StoredOr0(1, 1) + 1
             /\ warnings_file' = File(warnings_data')
       /\ (last'.op \in DestructiveKinds /\ EnforcementFailed(out')) =>
             ActionsOf(user_action_tracker', 1, 1) =
                 Append(ActionsOf(user_action_tracker, 1, 1), <<last'.op, now>>)
       /\ StoredOr0(1, 1)' >= StoredOr0(1, 1)
       /\ Len(ActionsOf(user_action_tracker', 1, 1))
             >= Len(ActionsOf(user_action_tracker, 1, 1))]_vars

\* reached: the kick asked for by the sixth warning failed and the count is
\* six, while the five destructive actions of the member are on record
C26_Witness ==
    /\ last.op = "warn"
    /\ Requested(out, "kick")
    /\ Requested(out, "send_failure")
    /\ StoredOr0(1, 1) = 6
    /\ Len(ActionsOf(user_action_tracker, 1, 1)) = 5

\* the enforcement the count c calls for, as <<kind, minutes>>
CalledFor(c) ==
    IF c = 3 THEN << <<"mute", 10>> >>
    ELSE IF c = 4 THEN << <<"mute", 60>> >>
    ELSE IF c = 6 THEN << <<"kick", 0>> >>
    ELSE IF c > 6 THEN << <<"ban", 0>> >>
    ELSE << >>

\* the enforcement requests of the last call, as <<kind, minutes>>
AskedFor ==
    [i \in 1..Len(Enforcements(out)) |->
        << Enforcements(out)[i].op,
           IF Enforcements(out)[i].op = "mute" THEN Enforcements(out)[i].arg ELSE 0 >>]

\* C27: if the direct message to the warned user cannot be delivered, the
\* warn call still leaves the count incremented (in memory and, the disk
\* being writable, in the warnings file), still replies in the channel, and
\* still requests the escalation the post-increment count calls for.
C27_UndeliveredDmStillEscalates ==
    (WarnDone /\ Requested(out, "dm_failed")) =>
        /\ HasRecord(last.g, last.u)
        /\ StoredCount(last.g, last.u) = last.n
        /\ last.n = (IF last.prev = -1 THEN 0 ELSE last.prev) + 1
        /\ warnings_file = File(warnings_data)
        /\ Requested(out, "send")
        /\ AskedFor = CalledFor(last.n)

\* reached: the sixth warning could not be announced to the member by direct
\* message and the kick was requested all the same
C27_Witness ==
    /\ WarnDone
    /\ Requested(out, "dm_failed")
    /\ last.n = 6
    /\ Requested(out, "kick")

\* the count the document of a file holds for a member, -1 when the file
\* does not parse or has no entry for the member
CountIn(file, g, u) ==
    IF file.st = "ok" /\ has(file.doc, ToString(g), ToString(u))
    THEN file.doc[ToString(g)][ToString(u)]
    ELSE -1

\* in the last call the save came first, before the direct message, the
\* channel reply and every enforcement request
SavedFirst(o) ==
    /\ Len(o) >= 3
    /\ o[1].op = "save_warnings"
    /\ \A i \in 2..Len(o) : o[i].op # "save_warnings"
    /\ o[2].op \in {"dm", "dm_failed"}
    /\ o[3].op = "send"

\* C28 as stated: within one warn call the incremented count is written to
\* the warnings document before the notification and any escalation request
\* are issued and before the call returns; on return the primary warnings
\* document contains the new count.
C28_PersistedOnReturn ==
    WarnDone =>
        /\ SavedFirst(out)
        /\ CountIn(warnings_file, last.g, last.u) = last.n

\* C28: within one warn call the save of the table holding the incremented
\* count is awaited before the notification and any escalation request are
\* issued and before the call returns; on return the primary warnings
\* document holds the new table if the write succeeded and is what it was
\* before the call if the write failed.
C28_SaveAwaitedFirst ==
    [][(last'.op = "warn" /\ last'.status = "ok") =>
          /\ SavedFirst(out')
          /\ CountIn(File(warnings_data'), last'.g, last'.u) = last'.n
          /\ \/ warnings_file' = File(warnings_data')
             \/ warnings_file' = warnings_file]_vars

\* reached: a warn returned with the second warning of the member in memory
\* while the primary document, its write having failed, still holds the first
C28_Witness ==
    /\ WarnDone
    /\ last.n = 2
    /\ StoredCount(last.g, last.u) = 2
    /\ CountIn(warnings_file, last.g, last.u) = 1

\* the runner has just left the process or started the bot again after
\* bot.run ended with an error
LeftOrRestarted == last.op = "run_bot" /\ last.amount # WordArg("returned")

\* C29 as stated: on every path by which the runner terminates the process
\* or restarts the bot after a failure, the on_shutdown hook is invoked
\* first and flushes the warning table synchronously to the primary and the
\* backup file.
C29_ShutdownHookOnEveryPath ==
    LeftOrRestarted =>
        /\ Requested(out, "on_shutdown")
        /\ Requested(out, "save_warnings_sync")

(***************************************************************************)
(* Properties of attribution and of the tracker's retention.               *)
(***************************************************************************)
\* the step skipped its event: the tracker is as it was, no punishment is
\* requested, and the handler ended on one of its ordinary paths
Skipped ==
    /\ user_action_tracker' = user_action_tracker
    /\ Enforcements(out') = << >>
    /\ last'.status \in {"lookup_error", "no_entry", "mismatch"}

\* the step is the handler of a ban, kick, role-delete or channel-delete
\* event whose lookup ended in the given way
TargetedEvent(audit) ==
    \/ on_member_ban(1, 1, audit, TRUE, {2}, TRUE)
    \/ on_member_remove(1, 1, audit, TRUE, {2}, TRUE)
    \/ on_guild_role_delete(1, 1, audit, TRUE, {2}, TRUE)
    \/ on_guild_channel_delete(1, 1, audit, TRUE, {2}, TRUE)

\* C31 as stated: when the audit-log lookup of a destructive-action event
\* (ban, kick, role delete, channel delete, bulk delete) raises, returns no
\* entry, or returns an entry about another target, the event is skipped:
\* the tracker is unchanged, no punishment is requested, the handler ends
\* normally.
C31_FailedAttributionSkips ==
    [][\A audit \in {"error", "none", "mismatch"} :
          (TargetedEvent(audit) \/ on_bulk_message_delete(1, 1, audit, TRUE, {2}, TRUE))
             => Skipped]_vars

\* C31: when the audit-log lookup raises or returns no entry, the event is
\* skipped, whatever its kind; when it returns an entry about another target,
\* a ban, kick, role-delete or channel-delete event is skipped.  (The
\* bulk-delete handler compares no target.)
C31_FailedLookupSkips ==
    [][/\ \A audit \in {"error", "none"} :
             (TargetedEvent(audit) \/ on_bulk_message_delete(1, 1, audit, TRUE, {2}, TRUE))
                => Skipped
       /\ TargetedEvent("mismatch") => Skipped]_vars

\* reached: after two tracked actions of the member, which a further one
\* would answer with a ban, a kick whose audit entry is about somebody else
\* is skipped and two actions stay on record
C31_Witness ==
    /\ last.op = "kick"
    /\ last.status = "mismatch"
    /\ Len(ActionsOf(user_action_tracker, 1, 1)) = 2
    /\ BanThreshold = 2
    /\ out = << >>

\* C32: immediately after a track_user_action on a (guild, actor) pair at
\* time T with window W, every record retained for the pair has a timestamp
\* >= T - W, and the record just appended is among them (it is the last).
C32_RetainedWithinWindow ==
    Tracked =>
        LET kept == ActionsOf(user_action_tracker, last.g, last.u) IN
        /\ \A i \in 1..Len(kept) : kept[i][2] >= last.t - Window
        /\ Len(kept) >= 1
        /\ kept[Len(kept)] = << last.op, last.t >>

\* reached: of three actions attributed to the actor only the one just
\* appended is retained, the other two being older than the window
C32_Witness ==
    /\ Tracked
    /\ Len(recorded[Actor]) = 3
    /\ ActionsOf(user_action_tracker, last.g, last.u) = << << last.op, last.t >> >>
    /\ \A i \in 1..2 : recorded[Actor][i] <= last.t - Window

(***************************************************************************)
(* Saves in the executor beside the handlers on the event loop.            *)
(***************************************************************************)
\* the document a job has written to its temporary file
TextOf(job) == (DumpGuild :> job.text)

\* C33: the table a background-thread save serialises is the table as it
\* stood at one single instant: no written document mixes counts of
\* different instants, and no save fails because the table changed while it
\* was being serialised.
C33_SerializedAtOneInstant ==
    \A i \in DOMAIN jobs :
        /\ jobs[i].pc # "failed"
        /\ jobs[i].pc \in {"dumped", "moved"} => TextOf(jobs[i]) \in jobs[i].tables

\* every call has returned and every job has ended
Quiet ==
    /\ calls # << >>
    /\ \A i \in DOMAIN calls : calls[i].pc = "done"
    /\ \A i \in DOMAIN jobs : jobs[i].pc \in {"moved", "failed"}

\* C34: once the saves that were in flight together have all completed and
\* nothing mutates the table any more, the primary warnings file holds the
\* latest in-memory table; a write that started earlier never replaces the
\* file after a write that started later.
C34_LatestTableOnDisk ==
    (Quiet /\ \A i \in DOMAIN jobs : jobs[i].pc = "moved")
        => warnings_file = File(warnings_data)

\* the warn calls aimed at member u of guild g, in the order they started
WarnCallsOn(g, u) ==
    SelectSeq(calls, LAMBDA c : c.op = "warn" /\ c.g = g /\ c.u = u)

\* the calls on (g, u) that escalated on count t
ActedOn(g, u, t) ==
    {k \in DOMAIN WarnCallsOn(g, u) : WarnCallsOn(g, u)[k].acted = t}

\* C35: warn calls for one user that interleave at their suspension points
\* lose no increment and observe pairwise different counts: the k-th later
\* call holds the first call's count plus k and the table holds the last
\* call's count; each of the tier counts 3, 4 and 6 is acted upon by at most
\* one call, by the call that incremented to it, and by exactly one once
\* the calls have returned.
C35_OneCallPerTier ==
    \A p \in WarnTargets :
        LET on == WarnCallsOn(p[1], p[2]) IN
        /\ \A k \in DOMAIN on : on[k].n = on[1].n + (k - 1)
        /\ on # << >> => StoredOr0(p[1], p[2]) = on[Len(on)].n
        /\ \A k \in DOMAIN on : on[k].acted \in {0, on[k].n}
        /\ \A t \in {3, 4, 6} :
              /\ Cardinality(ActedOn(p[1], p[2], t)) <= 1
              /\ (Quiet /\ \E k \in DOMAIN on : on[k].n = t)
                    => Cardinality(ActedOn(p[1], p[2], t)) = 1

\* two calls on one member are in flight together; the first reached 3 and
\* the second 4, and each has requested the mute of its own tier
C35_Witness ==
    /\ Len(calls) = 2
    /\ calls[1].u = 1 /\ calls[2].u = 1
    /\ calls[1].n = 3 /\ calls[2].n = 4
    /\ calls[1].acted = 3 /\ calls[2].acted = 4
    /\ calls[1].pc = "enforce" /\ calls[2].pc = "enforce"

\* a violation call of the author is suspended at its punishment or deletion
Pending(g, u) ==
    \E i \in DOMAIN calls :
        /\ calls[i].op = "message" /\ calls[i].g = g /\ calls[i].u = u
        /\ calls[i].pc \in {"punish", "delete"}

\* C36: the anti-spam handler resets the author's history only when its
\* enforcement and message-delete calls have returned: the step that raises
\* a violation and the step that resumes it after the punishment leave the
\* history as it is, and the step in which the handler ends leaves it empty,
\* whatever was recorded meanwhile.  Every message handled in between is
\* counted against the history as it stands, not yet reset.
C36_ResetWhenCallsReturned ==
    [][\A p \in SpamAuthors :
        LET g == p[1]
            u == p[2]
            window == security_settings.antispam_time_window
        IN
        /\ Len(calls') > Len(calls) => History(g, u)' = History(g, u)
        /\ \A i \in DOMAIN calls :
              /\ (calls[i].pc = "punish" /\ calls'[i].pc = "delete")
                    => History(g, u)' = History(g, u)
              /\ (calls[i].pc # "done" /\ calls'[i].pc = "done")
                    => History(calls[i].g, calls[i].u)' = no_history
        /\ ((last'.status = "spam" /\ Len(calls') > Len(calls))
             \/ (last'.status = "accepted" /\ spam_tracker' # spam_tracker))
              => last'.n = Len(SelectSeq(History(g, u).messages,
                                         LAMBDA m : now - m.timestamp < window))
        /\ (Pending(g, u) /\ last'.status = "accepted" /\ spam_tracker' # spam_tracker)
              => Len(History(g, u)'.messages) > 0]_vars

\* two violations of one author are pending together: the second message was
\* counted against the history the first one left in place, and flooded it
C36_Witness ==
    /\ Len(calls) = 2
    /\ calls[1].pc = "punish" /\ calls[2].pc = "punish"
    /\ calls[1].u = calls[2].u
    /\ calls[2].n >= security_settings.antispam_message_limit
    /\ Len(History(1, 1).messages) >= security_settings.antispam_message_limit

(***************************************************************************)
(* Repeated punishment of one actor.                                       *)
(***************************************************************************)
\* the actions attributed to the actor so far that are younger than the
\* window at the time of the last one
StillCounted ==
    SelectSeq(recorded[Actor], LAMBDA ts : last.t - ts < Window)

\* C37: a punishment never resets the anti-nuke tracker: the count of a
\* tracked action is the number of the actor's actions still inside the
\* window, punished or not, and once the earlier ones among them have
\* reached the kick threshold the action requests a punishment again, a
\* kick while the count is below the ban threshold and a ban from then on.
C37_PunishedAgainInsideWindow ==
    Tracked =>
        /\ last.n = Len(StillCounted)
        /\ Len(ActionsOf(user_action_tracker, last.g, last.u)) = Len(StillCounted)
        /\ Len(StillCounted) - 1 >= KickThreshold =>
              IF last.n >= BanThreshold
              THEN Requested(out, "ban") /\ ~Requested(out, "kick")
              ELSE Requested(out, "kick") /\ ~Requested(out, "ban")

\* reached: the actor was kicked at the third action, and the fourth action
\* inside the same window is answered with a kick again
C37_Witness ==
    /\ Tracked
    /\ KickThreshold = 3
    /\ Len(StillCounted) = 4
    /\ last.prev = 3
    /\ Requested(out, "kick")

(***************************************************************************)
(* The whitelist.                                                          *)
(***************************************************************************)
\* the role identifier is on the list
Listed(settings, r) ==
    \E i \in 1..Len(settings.whitelisted_roles) :
        settings.whitelisted_roles[i] = ToString(r)

\* the list names no role twice
NoDuplicates(settings) ==
    \A i, j \in 1..Len(settings.whitelisted_roles) :
        settings.whitelisted_roles[i] = settings.whitelisted_roles[j] => i = j

\* the effects ask for the settings to be saved
SettingsSaveAsked(o) == \E i \in 1..Len(o) : o[i].op = "save_security_settings"

\* the role a whitelist command was given
GivenRole(c) == CHOOSE r \in Roles : c.roles = {r}

\* C38: the whitelist never names a role twice.  Adding a listed role and
\* removing an unlisted one change no setting and request no save; an add
\* leaves the role listed and a remove leaves it unlisted; and both
\* detectors skip exactly the members holding a listed role.
C38_WhitelistIsASet ==
    /\ [](NoDuplicates(security_settings))
    /\ [][(last'.op = "securitywhitelist" /\ last' # last) =>
            LET r == GivenRole(last') IN
            /\ (last'.amount.txt = "add" /\ Listed(security_settings, r))
                  => /\ UNCHANGED <<security_settings, security_file>>
                     /\ ~SettingsSaveAsked(out')
            /\ (last'.amount.txt = "remove" /\ ~Listed(security_settings, r))
                  => /\ UNCHANGED <<security_settings, security_file>>
                     /\ ~SettingsSaveAsked(out')
            /\ last'.amount.txt = "add" => Listed(security_settings', r)
            /\ last'.amount.txt = "remove" => ~Listed(security_settings', r)]_vars
    /\ [][(last'.op \in {"message", "role_delete"}
           /\ (spam_tracker' # spam_tracker \/ last' # last
               \/ user_action_tracker' # user_action_tracker))
           => (last'.status = "whitelisted"
                 <=> \E r \in last'.roles : Listed(security_settings, r))]_vars

\* reached: role 2 was added to a list holding role 1, and a member holding
\* role 2 alone has just been passed over by the anti-nuke detector
C38_Witness ==
    /\ security_settings.whitelisted_roles = << "1", "2" >>
    /\ last.op = "role_delete"
    /\ last.roles = {2}
    /\ last.status = "whitelisted"

(***************************************************************************)
(* The enablement flag and the pre-invocation hook.                        *)
(***************************************************************************)
CommandNames == {"work", "stop", "ping"}

\* the step handles a command
CommandStep == last' # last /\ last'.op \in CommandNames

\* the hook refused the command
Refused(c) == c.status \in {"OwnerOnly", "BotDisabled", "Cooldown"}

\* the process has just started
JustStarted == last.op \in {"none", "restart"}

\* the flag is false after a start that found no parseable state file
C39_FalseWithoutStateFile ==
    [](JustStarted /\ bot_state_file.st # "ok" => ~botEnabled)

\* a disabled bot refuses every command but work, and a non-owner's work or
\* stop changes neither the flag nor the file
C39_GuardHolds ==
    [][CommandStep =>
        /\ (~botEnabled /\ last'.op # "work") => Refused(last')
        /\ (last'.op \in {"work", "stop"} /\ last'.u # MAIN_OWNER_ID)
              => UNCHANGED <<botEnabled, bot_state_file>>]_vars

StampOf(cooldowns, u) == IF u \in DOMAIN cooldowns THEN cooldowns[u] ELSE -1

\* C40: outside direct-message channels a command that got as far as the
\* cooldown check is rejected by it exactly when the user's stamp is less
\* than 3 seconds old; the stamp is the time of the user's last command
\* that passed the check: a command that passes outside direct messages
\* sets it to the current time, a command rejected by the cooldown, the
\* owner-only or the bot-disabled check leaves every stamp as it is, and no
\* command touches the stamp of another user.
C40_CooldownPerUser ==
    /\ [][CommandStep =>
            LET u == last'.u
                inDM == last'.g = 0
                stamp == StampOf(command_cooldowns, u)
            IN
            /\ (~inDM /\ last'.status \notin {"OwnerOnly", "BotDisabled"})
                  => (last'.status = "Cooldown" <=> (stamp >= 0 /\ now - stamp < 3))
            /\ Refused(last') => command_cooldowns' = command_cooldowns
            /\ (~inDM /\ ~Refused(last')) => StampOf(command_cooldowns', u) = now
            /\ \A v \in Users \ {u} :
                  StampOf(command_cooldowns', v) = StampOf(command_cooldowns, v)]_vars
    /\ [][(last'.op \notin CommandNames \cup {"restart"})
            => command_cooldowns' = command_cooldowns]_vars

\* reached: user 2 is refused two seconds after their last command that
\* passed, while user 1 was let through a second ago
C40_Witness ==
    /\ last.op = "ping"
    /\ last.u = 2
    /\ last.g = 1
    /\ last.status = "Cooldown"
    /\ now - StampOf(command_cooldowns, 2) = 2
    /\ now - StampOf(command_cooldowns, 1) = 1
====
